---------------------------- MODULE Spec2Model ----------------------------
(***************************************************************************)
(* Model of the cygnus drum-transcription API (cygnus-api).                *)
(*                                                                         *)
(*   - the job state machine of src/app/main.py (upload_audio,             *)
(*     start_transcription, download_result, process_audio_task) together  *)
(*     with DrumTranscriber.__init__/_download_model/_build_model/         *)
(*     transcribe/_run_tf2_model_inference of src/app/transcriber.py;      *)
(*   - the two peak pickers _find_onset_frames and _find_onset_peaks as    *)
(*     pure operators, exercised by the specification SpecPeaks.           *)
(*                                                                         *)
(* Python indices are 0-based; a Python sequence s is a TLA+ sequence and  *)
(* s[i] of the source is At(s, i).  Probabilities are integers in tenths   *)
(* (0.3 is 3): the pickers only compare values, so the scaling is exact.   *)
(***************************************************************************)
EXTENDS Integers, Sequences, FiniteSets, TLC

(***************************************************************************)
(* Bounds of the model.                                                    *)
(***************************************************************************)
MaxLen == 4
MaxVal == 3
MaxJobs == 2
MaxUploads == 1

(***************************************************************************)
(* Small helpers.                                                          *)
(***************************************************************************)
At(s, i) == s[i + 1]

Min(a, b) == IF a < b THEN a ELSE b

Max(a, b) == IF a > b THEN a ELSE b

\* s[lo:hi] of Python for 0 <= lo <= hi <= len(s)
Slice(s, lo, hi) == [k \in 1..(hi - lo) |-> s[lo + k]]

\* the example signals of the helper tests, in tenths
ExampleFrames == <<1, 2, 7, 4, 1>>

ExamplePeaks == <<1, 2, 6, 4, 1, 7, 6, 5, 1>>

BoundedSignals == UNION {[1..n -> 0..MaxVal] : n \in 0..MaxLen}

Signals == BoundedSignals \cup {ExampleFrames, ExamplePeaks}

Thresholds == 0..MaxVal \cup {5}

(***************************************************************************)
(* DrumTranscriber._find_onset_frames: local-maximum picker.               *)
(***************************************************************************)
\* the comparison with the left neighbour not strict
IsOnsetFrameGe(onset_probs, threshold, i) ==
    /\ At(onset_probs, i) > threshold
    /\ At(onset_probs, i) >= At(onset_probs, i - 1)
    /\ At(onset_probs, i) > At(onset_probs, i + 1)

\* lines 310-314
IsOnsetFrame(onset_probs, threshold, i) ==
    /\ At(onset_probs, i) > threshold
    /\ At(onset_probs, i) > At(onset_probs, i - 1)
    /\ At(onset_probs, i) > At(onset_probs, i + 1)

RECURSIVE FindOnsetFramesFrom(_, _, _)
FindOnsetFramesFrom(onset_probs, threshold, i) ==
    IF i >= Len(onset_probs) - 1 THEN <<>>
    ELSE (IF IsOnsetFrame(onset_probs, threshold, i) THEN <<i>> ELSE <<>>)
         \o FindOnsetFramesFrom(onset_probs, threshold, i + 1)

\* frame_probs is accepted and never read, as in the source
FindOnsetFrames(onset_probs, frame_probs, threshold) ==
    FindOnsetFramesFrom(onset_probs, threshold, 1)

(***************************************************************************)
(* DrumTranscriber._find_onset_peaks: threshold-region picker.             *)
(*                                                                         *)
(* above_threshold is a boolean array, and so is its concatenation with    *)
(* [False] on both sides.  numpy.diff of a boolean array is computed with  *)
(* not_equal, so diff is boolean as well; in the comparisons diff == 1 and *)
(* diff == -1 a boolean counts as 1 (True) or 0 (False).  NpDiff gives the *)
(* elements of diff as those numbers.                                      *)
(***************************************************************************)
B2I(b) == IF b THEN 1 ELSE 0

AboveThreshold(signal, threshold) ==
    [k \in 1..Len(signal) |-> signal[k] > threshold]

PadFalse(above) == <<FALSE>> \o above \o <<FALSE>>

\* diff computed by subtraction, as for an integer array
NpDiffSubtract(a) == [k \in 1..(Len(a) - 1) |-> B2I(a[k + 1]) - B2I(a[k])]

NpDiff(a) == [k \in 1..(Len(a) - 1) |-> B2I(a[k + 1] # a[k])]

\* np.where(d == v)[0]: the 0-based positions of v in d, ascending
RECURSIVE NpWhereFrom(_, _, _)
NpWhereFrom(d, v, k) ==
    IF k > Len(d) THEN <<>>
    ELSE (IF d[k] = v THEN <<k - 1>> ELSE <<>>) \o NpWhereFrom(d, v, k + 1)

NpWhere(d, v) == NpWhereFrom(d, v, 1)

Starts(signal, threshold) ==
    NpWhere(NpDiff(PadFalse(AboveThreshold(signal, threshold))), 1)

Ends(signal, threshold) ==
    NpWhere(NpDiff(PadFalse(AboveThreshold(signal, threshold))), -1)

\* while end < len(signal) and signal[end] > signal[end - 1]: end += 1
\* (At(signal, -1) cannot be asked for: end >= 1 after the padding)
RECURSIVE ExtendEnd(_, _)
ExtendEnd(signal, end) ==
    IF end < Len(signal) /\ At(signal, end) > At(signal, end - 1)
    THEN ExtendEnd(signal, end + 1)
    ELSE end

\* np.argmax: the first position of the maximum of a non-empty segment
ArgMax(segment) ==
    CHOOSE i \in 0..(Len(segment) - 1) :
        /\ \A k \in 0..(Len(segment) - 1) : At(segment, k) <= At(segment, i)
        /\ \A k \in 0..(i - 1) : At(segment, k) < At(segment, i)

WindowStart(start) == Max(0, start - 1)

WindowEnd(signal, end) == ExtendEnd(signal, Min(Len(signal), end + 1))

\* the body of the for loop: the peaks (none or one) of one (start, end) pair
RegionPeak(signal, start, end) ==
    LET s == WindowStart(start)
        e == WindowEnd(signal, end)
    IN  IF e > s /\ e - s > 0
        THEN <<s + ArgMax(Slice(signal, s, e))>>
        ELSE <<>>

\* for start, end in zip(starts, ends): zip stops at the shorter sequence
RECURSIVE ZipPeaks(_, _, _, _)
ZipPeaks(signal, starts, ends, k) ==
    IF k > Min(Len(starts), Len(ends)) THEN <<>>
    ELSE RegionPeak(signal, starts[k], ends[k])
         \o ZipPeaks(signal, starts, ends, k + 1)

FindOnsetPeaks(signal, threshold) ==
    ZipPeaks(signal, Starts(signal, threshold), Ends(signal, threshold), 1)

(***************************************************************************)
(* Event collections.  A Python dict keeps insertion order, so a           *)
(* collection is a sequence of entries [pitch, events]; an event is a      *)
(* record [form, time, velocity]: form says whether the code appended a    *)
(* tuple (time, velocity) or a dict {"time", "velocity"}; times are in     *)
(* milliseconds.                                                           *)
(***************************************************************************)
\* the keys of DrumTranscriber.DRUM_MAP, in insertion order
DRUM_MAP == <<36, 38, 42, 46, 49, 51, 45, 47, 50>>

\* the keys of self.drum_mapping, in insertion order
drum_mapping == <<36, 38, 42, 46, 49, 51, 41, 47, 50>>

hop_length == 512

sample_rate == 44100

\* the tuple (time, velocity)
Tuple(time, velocity) == [form |-> "tuple", time |-> time, velocity |-> velocity]

\* the dict {"time": time, "velocity": velocity}
Dict(time, velocity) == [form |-> "dict", time |-> time, velocity |-> velocity]

\* {pitch: [] for pitch in keys}
EmptyEvents(keys) == [k \in 1..Len(keys) |-> [pitch |-> keys[k], events |-> <<>>]]

\* collection[pitch].append(event)
AppendEvent(collection, pitch, event) ==
    [k \in 1..Len(collection) |->
        IF collection[k].pitch = pitch
        THEN [collection[k] EXCEPT !.events = Append(@, event)]
        ELSE collection[k]]

(***************************************************************************)
(* DrumTranscriber._detect_onsets_from_audio.  A loaded waveform is given  *)
(* by what librosa reports for it: the sequence of its detected onsets,    *)
(* each with its time (ms), the length of the window cut at the onset, the *)
(* mean spectral centroid (Hz) and the mean zero-crossing rate (in         *)
(* hundredths) of that window.                                             *)
(***************************************************************************)
\* the table with the test of the crash before that of the hi-hat
ClassifyOnsetCrashFirst(drum_onsets, o) ==
    IF o.len = 0 THEN drum_onsets
    ELSE IF o.centroid < 150
         THEN AppendEvent(drum_onsets, 36, Tuple(o.time, 80))
    ELSE IF o.centroid < 350 /\ o.zcr > 10
         THEN AppendEvent(drum_onsets, 38, Tuple(o.time, 70))
    ELSE IF o.centroid > 2000
         THEN AppendEvent(drum_onsets, 49, Tuple(o.time, 65))
    ELSE IF o.centroid > 3000 /\ o.zcr > 20
         THEN AppendEvent(drum_onsets, 42, Tuple(o.time, 60))
    ELSE IF o.centroid < 1000
         THEN IF o.centroid < 500
              THEN AppendEvent(drum_onsets, 45, Tuple(o.time, 65))
              ELSE IF o.centroid < 750
              THEN AppendEvent(drum_onsets, 47, Tuple(o.time, 65))
              ELSE AppendEvent(drum_onsets, 50, Tuple(o.time, 65))
    ELSE drum_onsets

\* the table with the toms reaching up to the crash: no gap is left
ClassifyOnsetNoGap(drum_onsets, o) ==
    IF o.len = 0 THEN drum_onsets
    ELSE IF o.centroid < 150
         THEN AppendEvent(drum_onsets, 36, Tuple(o.time, 80))
    ELSE IF o.centroid < 350 /\ o.zcr > 10
         THEN AppendEvent(drum_onsets, 38, Tuple(o.time, 70))
    ELSE IF o.centroid > 3000 /\ o.zcr > 20
         THEN AppendEvent(drum_onsets, 42, Tuple(o.time, 60))
    ELSE IF o.centroid > 2000
         THEN AppendEvent(drum_onsets, 49, Tuple(o.time, 65))
    ELSE IF o.centroid < 500
         THEN AppendEvent(drum_onsets, 45, Tuple(o.time, 65))
    ELSE IF o.centroid < 750
         THEN AppendEvent(drum_onsets, 47, Tuple(o.time, 65))
    ELSE AppendEvent(drum_onsets, 50, Tuple(o.time, 65))

ClassifyOnset(drum_onsets, o) ==
    IF o.len = 0 THEN drum_onsets
    ELSE IF o.centroid < 150
         THEN AppendEvent(drum_onsets, 36, Tuple(o.time, 80))
    ELSE IF o.centroid < 350 /\ o.zcr > 10
         THEN AppendEvent(drum_onsets, 38, Tuple(o.time, 70))
    ELSE IF o.centroid > 3000 /\ o.zcr > 20
         THEN AppendEvent(drum_onsets, 42, Tuple(o.time, 60))
    ELSE IF o.centroid > 2000
         THEN AppendEvent(drum_onsets, 49, Tuple(o.time, 65))
    ELSE IF o.centroid < 1000
         THEN IF o.centroid < 500
              THEN AppendEvent(drum_onsets, 45, Tuple(o.time, 65))
              ELSE IF o.centroid < 750
              THEN AppendEvent(drum_onsets, 47, Tuple(o.time, 65))
              ELSE AppendEvent(drum_onsets, 50, Tuple(o.time, 65))
    ELSE drum_onsets

RECURSIVE ClassifyOnsetsFrom(_, _, _)
ClassifyOnsetsFrom(drum_onsets, audio, k) ==
    IF k > Len(audio) THEN drum_onsets
    ELSE ClassifyOnsetsFrom(ClassifyOnset(drum_onsets, audio[k]), audio, k + 1)

DetectOnsetsFromAudio(audio) ==
    ClassifyOnsetsFrom(EmptyEvents(DRUM_MAP), audio, 1)

(***************************************************************************)
(* DrumTranscriber._process_tf2_model_outputs.  The outputs of the model   *)
(* are onset_probs and velocity_values, one column per key; a column is a  *)
(* sequence over the frames (probabilities in tenths, velocity values in   *)
(* hundredths).  keys is the set of names the outputs dict holds.          *)
(***************************************************************************)
\* the ranges of drum_key_ranges, in insertion order: <<drum, first, last>>
drum_key_ranges ==
    << <<36, 35, 36>>, <<38, 37, 40>>, <<42, 41, 44>>, <<46, 44, 45>>,
       <<49, 45, 51>>, <<51, 50, 52>>, <<41, 52, 54>>, <<47, 55, 57>>,
       <<50, 58, 59>> >>

onset_peak_threshold == 3

\* int(np.clip(v * 127, 1, 127)) for v in hundredths
ClipVelocity(v) ==
    IF v * 127 <= 100 THEN 1
    ELSE IF v * 127 >= 12700 THEN 127
    ELSE (v * 127) \div 100

\* onset_time = idx * hop_length / sr, in milliseconds
FrameTime(idx, sr) == (idx * hop_length * 1000) \div sr

RECURSIVE AppendPeaks(_, _, _, _, _, _)
AppendPeaks(drum_events, drum_midi, onset_indices, pitch_velocities, sr, k) ==
    IF k > Len(onset_indices) THEN drum_events
    ELSE AppendPeaks(
            AppendEvent(drum_events, drum_midi,
                Dict(FrameTime(onset_indices[k], sr),
                     ClipVelocity(At(pitch_velocities, onset_indices[k])))),
            drum_midi, onset_indices, pitch_velocities, sr, k + 1)

\* for pitch in key_range, from pitch on
RECURSIVE ProcessKeyRange(_, _, _, _, _, _)
ProcessKeyRange(drum_events, outputs, sr, drum_midi, pitch, last) ==
    IF pitch > last THEN drum_events
    ELSE IF pitch >= outputs.ncols
         THEN ProcessKeyRange(drum_events, outputs, sr, drum_midi, pitch + 1, last)
    ELSE ProcessKeyRange(
            AppendPeaks(drum_events, drum_midi,
                FindOnsetPeaks(outputs.onset_probs[pitch], onset_peak_threshold),
                outputs.velocity_values[pitch], sr, 1),
            outputs, sr, drum_midi, pitch + 1, last)

RECURSIVE ProcessDrums(_, _, _, _)
ProcessDrums(drum_events, outputs, sr, k) ==
    IF k > Len(drum_key_ranges) THEN drum_events
    ELSE ProcessDrums(
            ProcessKeyRange(drum_events, outputs, sr, drum_key_ranges[k][1],
                drum_key_ranges[k][2], drum_key_ranges[k][3]),
            outputs, sr, k + 1)

\* outputs["onset_probs"] and outputs["velocity_values"] raise KeyError when
\* the name is missing
ProcessTf2ModelOutputsRaises(outputs) ==
    ~ ({"onset_probs", "velocity_values"} \subseteq outputs.keys)

ProcessTf2ModelOutputs(outputs, sr) ==
    ProcessDrums(EmptyEvents(drum_mapping), outputs, sr, 1)

(***************************************************************************)
(* DrumTranscriber._run_tf2_model_inference.  run says how the calls of    *)
(* the try block went: run.spectrogram and run.model are "ok" or "raise",  *)
(* run.outputs is what the model returned.  Every exception of the try     *)
(* block is caught and answered with the DSP fallback on the same audio.   *)
(***************************************************************************)
InferenceRaises(run) ==
    \/ run.spectrogram = "raise"
    \/ run.model = "raise"
    \/ ProcessTf2ModelOutputsRaises(run.outputs)

\* the handler re-raising instead of falling back: result "raise"
RunTf2ModelInferencePropagating(audio, sr, run) ==
    IF InferenceRaises(run)
    THEN [raised |-> TRUE, events |-> <<>>]
    ELSE [raised |-> FALSE, events |-> ProcessTf2ModelOutputs(run.outputs, sr)]

RunTf2ModelInference(audio, sr, run) ==
    IF InferenceRaises(run)
    THEN [raised |-> FALSE, events |-> DetectOnsetsFromAudio(audio)]
    ELSE [raised |-> FALSE, events |-> ProcessTf2ModelOutputs(run.outputs, sr)]

(***************************************************************************)
(* DrumTranscriber._create_midi: one note per event on the single drum     *)
(* track, in the order of the collection; the bytes written start with the *)
(* header chunk MThd.                                                      *)
(***************************************************************************)
\* pretty_midi.Note(velocity=int(velocity), pitch=drum_id, start=time,
\* end=time + 0.1)
Note(velocity, pitch, start, end) ==
    [pitch |-> pitch, velocity |-> velocity, start |-> start, end |-> end]

\* the note of a dict event taking the time for the velocity as well
NoteOfEventUnpackedOnly(drum_id, event) ==
    IF event.form = "tuple"
    THEN Note(event.velocity, drum_id, event.time, event.time + 100)
    ELSE Note(event.time, drum_id, event.time, event.time + 100)

\* time, velocity = event for a tuple; event["time"], event["velocity"] for
\* a dict
NoteOfEvent(drum_id, event) ==
    IF event.form = "tuple"
    THEN Note(event.velocity, drum_id, event.time, event.time + 100)
    ELSE Note(event.velocity, drum_id, event.time, event.time + 100)

RECURSIVE NotesOfEntry(_, _, _)
NotesOfEntry(drum_id, events, k) ==
    IF k > Len(events) THEN <<>>
    ELSE <<NoteOfEvent(drum_id, events[k])>>
         \o NotesOfEntry(drum_id, events, k + 1)

RECURSIVE NotesOf(_, _)
NotesOf(drum_events, k) ==
    IF k > Len(drum_events) THEN <<>>
    ELSE NotesOfEntry(drum_events[k].pitch, drum_events[k].events, 1)
         \o NotesOf(drum_events, k + 1)

CreateMidi(drum_events) ==
    [chunk |-> "MThd", is_drum |-> TRUE, program |-> 0,
     notes |-> NotesOf(drum_events, 1)]

(***************************************************************************)
(* DrumTranscriber._download_model and _build_model.                       *)
(*                                                                         *)
(* net says how the two download URLs went, each "ok", "request_error" (an *)
(* exception of requests.get, raise_for_status, mkdir or the write of the  *)
(* zip file: raised before the statement `import zipfile` of the try block *)
(* has run) or "bad_zip" (an exception of ZipFile, extractall or unlink:   *)
(* raised after it).  zipfile is a local name of _download_model, bound by *)
(* that import statement only, and the except clause reads                 *)
(* zipfile.BadZipFile to match the exception: when the name is not bound   *)
(* yet, evaluating the clause raises UnboundLocalError out of the function.*)
(***************************************************************************)
NetOutcomes == {"ok", "request_error", "bad_zip"}

\* the except clause matching whatever was raised: every URL's failure is
\* logged and the loop goes on
DownloadModelCatching(checkpoint, net) ==
    IF checkpoint THEN [raised |-> FALSE, path |-> "ckpt"]
    ELSE IF net[1] = "ok" THEN [raised |-> FALSE, path |-> "ckpt"]
    ELSE IF net[2] = "ok" THEN [raised |-> FALSE, path |-> "ckpt"]
    ELSE [raised |-> FALSE, path |-> "None"]

DownloadModel(checkpoint, net) ==
    IF checkpoint THEN [raised |-> FALSE, path |-> "ckpt"]
    ELSE IF net[1] = "ok" THEN [raised |-> FALSE, path |-> "ckpt"]
    ELSE IF net[1] = "request_error" THEN [raised |-> TRUE, path |-> "None"]
    ELSE IF net[2] = "ok" THEN [raised |-> FALSE, path |-> "ckpt"]
    ELSE [raised |-> FALSE, path |-> "None"]

\* build says how the calls of _build_model's try block went: "ok", "raise"
\* (create_drum_model or load_weights raised), or "no_path" (model_path is
\* not an existing file).  load_tf1_checkpoint_to_tf2 is declared as
\* (model, checkpoint_path) and called as (self.model_path, model): it
\* returns its first argument, the path string, which becomes self.model.
BuildOutcomes == {"ok", "raise", "no_path"}

BuildModel(model_path, tf2_weights_exist, build) ==
    IF model_path = "None" THEN "None"
    ELSE IF build = "raise" THEN "None"
    ELSE IF tf2_weights_exist THEN "model"
    ELSE IF build = "no_path" THEN "None"
    ELSE IF model_path = "weights" THEN "model"
    ELSE "path_string"

(***************************************************************************)
(* Inputs of the model: file contents, inference runs.                     *)
(***************************************************************************)
Silence == <<>>

\* a kick, an onset in the 1000-2000 Hz gap of the table, and a hi-hat
ThreeOnsets ==
    <<[time |-> 0, len |-> 1024, centroid |-> 100, zcr |-> 5],
      [time |-> 23, len |-> 1024, centroid |-> 1500, zcr |-> 5],
      [time |-> 46, len |-> 1024, centroid |-> 3500, zcr |-> 30]>>

Waveforms == {Silence, ThreeOnsets}

\* what a temporary upload file holds: decodable audio or not
Contents ==
    {[decodable |-> FALSE, audio |-> <<>>]}
    \cup {[decodable |-> TRUE, audio |-> w] : w \in Waveforms}

Frames == Len(ExampleFrames)

ZeroColumn == [k \in 1..Frames |-> 0]

\* outputs of a model with ncols columns whose onset_probs are zero except
\* in column col, which holds sig; the velocity values are vel everywhere
OutputsWith(names, ncols, col, sig, vel) ==
    [keys |-> names, ncols |-> ncols,
     onset_probs |-> [c \in 0..(ncols - 1) |-> IF c = col THEN sig ELSE ZeroColumn],
     velocity_values |-> [c \in 0..(ncols - 1) |-> [k \in 1..Frames |-> vel]]]

AllOutputNames == {"onset_probs", "offset_probs", "velocity_values", "frame_probs"}

ModelOutputs ==
    {OutputsWith(AllOutputNames, 88, 35, ExampleFrames, 50),
     OutputsWith(AllOutputNames, 88, 44, <<0, 9, 9, 0, 0>>, 200),
     OutputsWith({"onset_probs", "frame_probs", "velocity"}, 9, 0, ExampleFrames, 50)}

NoOutputs == OutputsWith({}, 0, 0, ZeroColumn, 0)

InferenceRuns ==
    {[spectrogram |-> "raise", model |-> "ok", outputs |-> NoOutputs],
     [spectrogram |-> "ok", model |-> "raise", outputs |-> NoOutputs]}
    \cup {[spectrogram |-> "ok", model |-> "ok", outputs |-> o] : o \in ModelOutputs}

(***************************************************************************)
(* State.                                                                  *)
(*   uploads_store, jobs_store, midi_store : the dicts of main.py          *)
(*   files        : the temporary upload files that exist, with contents   *)
(*   transcriber  : app.state.transcriber (created or not) with the        *)
(*                  DrumTranscriber's model_path and model                 *)
(*   tf2_weights, checkpoint : whether models/e-gmd/tf2_model.weights.h5   *)
(*                  and the checkpoint index file exist                    *)
(*   pc, running, local : where each job's process_audio_task stands, the  *)
(*                  task the event loop is running, and its local values   *)
(*   response     : the last HTTP response                                 *)
(*   trace        : per job, what happened while it was processed          *)
(*   signal, threshold, picker, peaks : input and result of a peak picker  *)
(*   applied, input, output : the function of the transcriber or the       *)
(*                  listing that was applied, its arguments and its result *)
(*   job_files    : the job files of the local StorageAdapter, each with   *)
(*                  its content and its modification time                  *)
(*   midi_files   : the MIDI files of the local StorageAdapter             *)
(*   calls        : the calls of StorageAdapter.update_job_status that     *)
(*                  were started, each with its arguments, its position    *)
(*                  and its local job_data                                 *)
(*   saved        : per job id, the job_data and the midi_data that the    *)
(*                  last save_job and the last save_midi were called with  *)
(***************************************************************************)
VARIABLES uploads_store, files, jobs_store, midi_store, transcriber,
          tf2_weights, checkpoint, pc, running, local, response, trace,
          signal, threshold, picker, peaks,
          applied, input, output, job_files,
          midi_files, calls, saved

jvars == <<uploads_store, files, jobs_store, midi_store, transcriber,
           tf2_weights, checkpoint, pc, running, local, response, trace>>

pvars == <<signal, threshold, picker, peaks>>

fvars == <<applied, input, output, job_files>>

svars == <<midi_files, calls, saved>>

vars == <<jvars, pvars, fvars, svars>>

JobIds == 1..MaxJobs

UploadIds == 1..MaxUploads

\* Optional[str]: <<>> is None, <<s>> is the string s
None == <<>>

Some(x) == <<x>>

NoTranscriber == [created |-> FALSE, model_path |-> "None", model |-> "None"]

NoLocal == [audio |-> <<>>, drum_events |-> <<>>, midi_data |-> <<>>, exc |-> None]

NoResponse == [op |-> "none", id |-> 0, code |-> 0, detail |-> "", content |-> <<>>]

NoTrace == [path |-> "none", inference_raised |-> FALSE, model_load_failed |-> FALSE,
            raised |-> "none", returned |-> FALSE, progress |-> <<0>>]

JInit ==
    /\ uploads_store = {}
    /\ files = <<>>
    /\ jobs_store = <<>>
    /\ midi_store = <<>>
    /\ transcriber = NoTranscriber
    /\ tf2_weights \in BOOLEAN
    /\ checkpoint = FALSE
    /\ pc = <<>>
    /\ running = 0
    /\ local = NoLocal
    /\ response = NoResponse
    /\ trace = <<>>

PIdle ==
    /\ signal = <<>>
    /\ threshold = 0
    /\ picker = "none"
    /\ peaks = <<>>

\* the storage directories are empty and no adapter call was started
SIdle ==
    /\ midi_files = <<>>
    /\ calls = <<>>
    /\ saved = [job |-> <<>>, midi |-> <<>>]

FIdle ==
    /\ applied = "none"
    /\ input = <<>>
    /\ output = <<>>
    /\ job_files = <<>>
    /\ SIdle

Init == JInit /\ PIdle /\ FIdle

(***************************************************************************)
(* HTTP handlers of main.py.  The handlers and the background tasks are    *)
(* coroutines of one event loop, and process_audio_task never suspends     *)
(* (its only await is on transcribe, which awaits nothing): a task that    *)
(* has started runs to its end before anything else runs.  running is the  *)
(* job of that task, 0 when the loop is free.                              *)
(***************************************************************************)
Respond(op, id, code, detail, content) ==
    [op |-> op, id |-> id, code |-> code, detail |-> detail, content |-> content]

\* upload_audio without the check of the filename
UploadAudioNoValidation(valid, content) ==
    /\ running = 0
    /\ LET upload_id == Cardinality(uploads_store) + 1
       IN  /\ upload_id <= MaxUploads
           /\ files' = (upload_id :> content) @@ files
           /\ uploads_store' = uploads_store \cup {upload_id}
           /\ response' = Respond("upload", upload_id, 200,
                                  "File uploaded successfully", <<>>)
    /\ UNCHANGED <<jobs_store, midi_store, transcriber, tf2_weights, checkpoint,
                   pc, running, local, trace, pvars, fvars, svars>>

\* upload_audio: valid says whether the filename ends in .mp3/.wav/.m4a/.flac
UploadAudio(valid, content) ==
    /\ running = 0
    /\ IF ~valid
       THEN /\ response' = Respond("upload", 0, 400, "Invalid file format", <<>>)
            /\ UNCHANGED <<uploads_store, files>>
       ELSE LET upload_id == Cardinality(uploads_store) + 1
            IN  /\ upload_id <= MaxUploads
                /\ files' = (upload_id :> content) @@ files
                /\ uploads_store' = uploads_store \cup {upload_id}
                /\ response' = Respond("upload", upload_id, 200,
                                       "File uploaded successfully", <<>>)
    /\ UNCHANGED <<jobs_store, midi_store, transcriber, tf2_weights, checkpoint,
                   pc, running, local, trace, pvars, fvars, svars>>

\* the job entry; now is what datetime.utcnow() gives
NewJob(job_id, upload_id, now) ==
    [job_id |-> job_id, status |-> "pending", created_at |-> now, progress |-> 0,
     result_url |-> None, error |-> None,
     file_path |-> upload_id, upload_id |-> upload_id]

\* start_transcription: the job entry is created and process_audio_task is
\* added as a background task
StartTranscription(upload_id, now) ==
    /\ running = 0
    /\ IF upload_id \notin uploads_store
       THEN /\ response' = Respond("transcribe", 0, 404, "Upload not found", <<>>)
            /\ UNCHANGED <<jobs_store, pc, trace>>
       ELSE LET job_id == Len(jobs_store) + 1
            IN  /\ job_id <= MaxJobs
                /\ jobs_store' = Append(jobs_store, NewJob(job_id, upload_id, now))
                /\ pc' = Append(pc, "queued")
                /\ trace' = Append(trace, NoTrace)
                /\ response' = Respond("transcribe", job_id, 200,
                                       "Transcription started successfully", <<>>)
    /\ UNCHANGED <<uploads_store, files, midi_store, transcriber, tf2_weights,
                   checkpoint, running, local, pvars, fvars, svars>>

\* download_result without the check of the job's status
DownloadResponseNoStatusCheck(job_id) ==
    IF job_id \notin DOMAIN jobs_store
    THEN Respond("download", job_id, 404, "Job not found", <<>>)
    ELSE IF job_id \notin DOMAIN midi_store
    THEN Respond("download", job_id, 404, "MIDI file not found", <<>>)
    ELSE Respond("download", job_id, 200, "", <<midi_store[job_id]>>)

DownloadResponse(job_id) ==
    IF job_id \notin DOMAIN jobs_store
    THEN Respond("download", job_id, 404, "Job not found", <<>>)
    ELSE IF jobs_store[job_id].status # "completed"
    THEN Respond("download", job_id, 400, "Job not completed yet", <<>>)
    ELSE IF job_id \notin DOMAIN midi_store
    THEN Respond("download", job_id, 404, "MIDI file not found", <<>>)
    ELSE Respond("download", job_id, 200, "", <<midi_store[job_id]>>)

DownloadResult(job_id) ==
    /\ running = 0
    /\ response' = DownloadResponse(job_id)
    /\ UNCHANGED <<uploads_store, files, jobs_store, midi_store, transcriber,
                   tf2_weights, checkpoint, pc, running, local, trace, pvars, fvars, svars>>

\* get_job_status: the job entry as it stands
GetJobStatus(job_id) ==
    /\ running = 0
    /\ response' = IF job_id \notin DOMAIN jobs_store
                   THEN Respond("status", job_id, 404, "Job not found", <<>>)
                   ELSE Respond("status", job_id, 200, "", <<jobs_store[job_id]>>)
    /\ UNCHANGED <<uploads_store, files, jobs_store, midi_store, transcriber,
                   tf2_weights, checkpoint, pc, running, local, trace, pvars, fvars, svars>>

(***************************************************************************)
(* process_audio_task(job_id, file_path), statement by statement, with the *)
(* body of DrumTranscriber.transcribe in place of the call.                *)
(***************************************************************************)
\* jobs_store[job_id]["progress"] = v, and the record of the write
\* a progress written to every job
WriteProgressAll(js, job_id, v) == [k \in DOMAIN js |-> [js[k] EXCEPT !.progress = v]]

WriteProgress(js, job_id, v) == [js EXCEPT ![job_id].progress = v]

LogProgress(tr, job_id, v) == [tr EXCEPT ![job_id].progress = Append(@, v)]

\* str(e) of the exception a stage raises
Message(stage) ==
    CASE stage = "construct" -> "cannot access local variable 'zipfile'"
      [] stage = "load" -> "audio file could not be loaded"
      [] stage = "inference" -> "model inference failed"
      [] stage = "midi" -> "MIDI could not be written"
      [] stage = "cleanup" -> "No such file or directory"

\* an exception of the given stage reaches the except clause of the task
Raise(job_id, stage) ==
    /\ local' = [local EXCEPT !.exc = Some(Message(stage))]
    /\ pc' = [pc EXCEPT ![job_id] = "except"]

\* the task added a second time: it starts again on a job that has ended
TaskStartAgain(job_id) ==
    /\ running = 0
    /\ job_id \in DOMAIN jobs_store
    /\ pc[job_id] \in {"queued", "done"}
    /\ running' = job_id
    /\ jobs_store' = WriteProgress([jobs_store EXCEPT ![job_id].status = "processing"],
                                   job_id, 10)
    /\ trace' = LogProgress(trace, job_id, 10)
    /\ pc' = [pc EXCEPT ![job_id] = "get_transcriber"]
    /\ local' = NoLocal
    /\ UNCHANGED <<uploads_store, files, midi_store, transcriber, tf2_weights,
                   checkpoint, response, pvars, fvars, svars>>

\* lines 246-248
TaskStart(job_id) ==
    /\ running = 0
    /\ job_id \in DOMAIN jobs_store
    /\ pc[job_id] = "queued"
    /\ running' = job_id
    /\ jobs_store' = WriteProgress([jobs_store EXCEPT ![job_id].status = "processing"],
                                   job_id, 10)
    /\ trace' = LogProgress(trace, job_id, 10)
    /\ pc' = [pc EXCEPT ![job_id] = "get_transcriber"]
    /\ local' = NoLocal
    /\ UNCHANGED <<uploads_store, files, midi_store, transcriber, tf2_weights,
                   checkpoint, response, pvars, fvars, svars>>

\* DrumTranscriber(): model_path is None and load_model is True
NewTranscriber(net, build) ==
    LET dl == DownloadModel(checkpoint, net)
        model_path == IF tf2_weights THEN "weights" ELSE dl.path
    IN  [raised |-> ~tf2_weights /\ dl.raised,
         downloaded |-> ~tf2_weights /\ ~dl.raised /\ dl.path = "ckpt",
         object |-> [created |-> TRUE, model_path |-> model_path,
                     model |-> BuildModel(model_path, tf2_weights, build)]]

\* lines 251-260
GetTranscriber(job_id, net, build) ==
    /\ running = job_id
    /\ pc[job_id] = "get_transcriber"
    /\ IF transcriber.created
       THEN /\ jobs_store' = WriteProgress(jobs_store, job_id, 30)
            /\ trace' = LogProgress(trace, job_id, 30)
            /\ pc' = [pc EXCEPT ![job_id] = "transcribe"]
            /\ UNCHANGED <<transcriber, checkpoint, local>>
       ELSE LET new == NewTranscriber(net, build)
            IN  IF new.raised
                THEN /\ Raise(job_id, "construct")
                     /\ trace' = [trace EXCEPT ![job_id].raised = "construct",
                                               ![job_id].model_load_failed = TRUE]
                     /\ UNCHANGED <<transcriber, checkpoint, jobs_store>>
                ELSE /\ transcriber' = new.object
                     /\ checkpoint' = (checkpoint \/ new.downloaded)
                     /\ jobs_store' = WriteProgress(jobs_store, job_id, 30)
                     /\ trace' = LogProgress(
                            [trace EXCEPT ![job_id].model_load_failed =
                                              (new.object.model = "None")],
                            job_id, 30)
                     /\ pc' = [pc EXCEPT ![job_id] = "transcribe"]
                     /\ UNCHANGED local
    /\ UNCHANGED <<uploads_store, files, midi_store, tf2_weights, running,
                   response, pvars, fvars, svars>>

\* transcribe, lines 384-388: progress 40, then librosa.load
TranscribeLoad(job_id) ==
    /\ running = job_id
    /\ pc[job_id] = "transcribe"
    /\ jobs_store' = WriteProgress(jobs_store, job_id, 40)
    /\ LET file_path == jobs_store[job_id].file_path
       IN  IF file_path \in DOMAIN files /\ files[file_path].decodable
           THEN /\ local' = [local EXCEPT !.audio = files[file_path].audio]
                /\ pc' = [pc EXCEPT ![job_id] = "build_model"]
                /\ trace' = LogProgress(trace, job_id, 40)
           ELSE /\ Raise(job_id, "load")
                /\ trace' = LogProgress([trace EXCEPT ![job_id].raised = "load"],
                                        job_id, 40)
    /\ UNCHANGED <<uploads_store, files, midi_store, transcriber, tf2_weights,
                   checkpoint, running, response, pvars, fvars, svars>>

\* a transcribe that builds the model on every call
TranscribeBuildModelAlways(job_id, build) ==
    /\ running = job_id
    /\ pc[job_id] = "build_model"
    /\ LET model == BuildModel(transcriber.model_path, tf2_weights, build)
       IN  /\ transcriber' = [transcriber EXCEPT !.model = model]
           /\ trace' = LogProgress(LogProgress(
                  [trace EXCEPT ![job_id].model_load_failed = (@ \/ model = "None")],
                  job_id, 40), job_id, 50)
    /\ jobs_store' = WriteProgress(jobs_store, job_id, 50)
    /\ pc' = [pc EXCEPT ![job_id] = "branch"]
    /\ UNCHANGED <<uploads_store, files, midi_store, tf2_weights, checkpoint,
                   running, local, response, pvars, fvars, svars>>

\* transcribe, lines 391-398: progress 40, the model is built when
\* self.model is None, progress 50
TranscribeBuildModel(job_id, build) ==
    /\ running = job_id
    /\ pc[job_id] = "build_model"
    /\ LET model == IF transcriber.model = "None"
                    THEN BuildModel(transcriber.model_path, tf2_weights, build)
                    ELSE transcriber.model
       IN  /\ transcriber' = [transcriber EXCEPT !.model = model]
           /\ trace' = LogProgress(LogProgress(
                  [trace EXCEPT ![job_id].model_load_failed = (@ \/ model = "None")],
                  job_id, 40), job_id, 50)
    /\ jobs_store' = WriteProgress(jobs_store, job_id, 50)
    /\ pc' = [pc EXCEPT ![job_id] = "branch"]
    /\ UNCHANGED <<uploads_store, files, midi_store, tf2_weights, checkpoint,
                   running, local, response, pvars, fvars, svars>>

\* transcribe, lines 400-405 and 412-417: the path is chosen, progress 60
TranscribeBranch(job_id) ==
    /\ running = job_id
    /\ pc[job_id] = "branch"
    /\ jobs_store' = WriteProgress(jobs_store, job_id, 60)
    /\ LET path == IF transcriber.model # "None" THEN "model" ELSE "dsp"
       IN  /\ trace' = LogProgress([trace EXCEPT ![job_id].path = path], job_id, 60)
           /\ pc' = [pc EXCEPT ![job_id] = path]
    /\ UNCHANGED <<uploads_store, files, midi_store, transcriber, tf2_weights,
                   checkpoint, running, local, response, pvars, fvars, svars>>

\* a model that is the path string cannot be called: self.model(...) raises
ActualRun(run) ==
    IF transcriber.model = "path_string" /\ run.spectrogram = "ok"
    THEN [run EXCEPT !.model = "raise"]
    ELSE run

\* a transcribe that gives up its model when the inference fails
TranscribeModelPathDiscarding(job_id, run) ==
    /\ running = job_id
    /\ pc[job_id] = "model"
    /\ local' = [local EXCEPT !.drum_events =
                     RunTf2ModelInference(local.audio, sample_rate, ActualRun(run)).events]
    /\ transcriber' = [transcriber EXCEPT !.model =
                           IF InferenceRaises(ActualRun(run)) THEN "None" ELSE @]
    /\ jobs_store' = WriteProgress(jobs_store, job_id, 70)
    /\ trace' = LogProgress(
           [trace EXCEPT ![job_id].inference_raised = InferenceRaises(ActualRun(run))],
           job_id, 70)
    /\ pc' = [pc EXCEPT ![job_id] = "progress_80"]
    /\ UNCHANGED <<uploads_store, files, midi_store, tf2_weights,
                   checkpoint, running, response, pvars, fvars, svars>>

\* transcribe, lines 408-411: model inference, progress 70
TranscribeModelPath(job_id, run) ==
    /\ running = job_id
    /\ pc[job_id] = "model"
    /\ LET result == RunTf2ModelInference(local.audio, sample_rate, ActualRun(run))
       IN  IF result.raised
           THEN /\ Raise(job_id, "inference")
                /\ trace' = [trace EXCEPT ![job_id].raised = "inference",
                                          ![job_id].inference_raised = TRUE]
                /\ UNCHANGED jobs_store
           ELSE /\ local' = [local EXCEPT !.drum_events = result.events]
                /\ jobs_store' = WriteProgress(jobs_store, job_id, 70)
                /\ trace' = LogProgress(
                       [trace EXCEPT ![job_id].inference_raised =
                                         InferenceRaises(ActualRun(run))],
                       job_id, 70)
                /\ pc' = [pc EXCEPT ![job_id] = "progress_80"]
    /\ UNCHANGED <<uploads_store, files, midi_store, transcriber, tf2_weights,
                   checkpoint, running, response, pvars, fvars, svars>>

\* transcribe, lines 420-423: DSP fallback, progress 70
TranscribeFallbackPath(job_id) ==
    /\ running = job_id
    /\ pc[job_id] = "dsp"
    /\ local' = [local EXCEPT !.drum_events = DetectOnsetsFromAudio(local.audio)]
    /\ jobs_store' = WriteProgress(jobs_store, job_id, 70)
    /\ trace' = LogProgress(trace, job_id, 70)
    /\ pc' = [pc EXCEPT ![job_id] = "progress_80"]
    /\ UNCHANGED <<uploads_store, files, midi_store, transcriber, tf2_weights,
                   checkpoint, running, response, pvars, fvars, svars>>

\* line 426 writing 8 for 80
TranscribeProgress80Typo(job_id) ==
    /\ running = job_id
    /\ pc[job_id] = "progress_80"
    /\ jobs_store' = WriteProgress(jobs_store, job_id, 8)
    /\ trace' = LogProgress(trace, job_id, 8)
    /\ pc' = [pc EXCEPT ![job_id] = "create_midi"]
    /\ UNCHANGED <<uploads_store, files, midi_store, transcriber, tf2_weights,
                   checkpoint, running, local, response, pvars, fvars, svars>>

\* transcribe, line 426
TranscribeProgress80(job_id) ==
    /\ running = job_id
    /\ pc[job_id] = "progress_80"
    /\ jobs_store' = WriteProgress(jobs_store, job_id, 80)
    /\ trace' = LogProgress(trace, job_id, 80)
    /\ pc' = [pc EXCEPT ![job_id] = "create_midi"]
    /\ UNCHANGED <<uploads_store, files, midi_store, transcriber, tf2_weights,
                   checkpoint, running, local, response, pvars, fvars, svars>>

\* transcribe, lines 429-434: _create_midi (written says whether the MIDI
\* library wrote the file), progress 90, return
TranscribeCreateMidi(job_id, written) ==
    /\ running = job_id
    /\ pc[job_id] = "create_midi"
    /\ IF written
       THEN /\ local' = [local EXCEPT !.midi_data = <<CreateMidi(local.drum_events)>>]
            /\ jobs_store' = WriteProgress(jobs_store, job_id, 90)
            /\ trace' = LogProgress([trace EXCEPT ![job_id].returned = TRUE],
                                    job_id, 90)
            /\ pc' = [pc EXCEPT ![job_id] = "store"]
       ELSE /\ Raise(job_id, "midi")
            /\ trace' = [trace EXCEPT ![job_id].raised = "midi"]
            /\ UNCHANGED jobs_store
    /\ UNCHANGED <<uploads_store, files, midi_store, transcriber, tf2_weights,
                   checkpoint, running, response, pvars, fvars, svars>>

\* lines 266-272
StoreResult(job_id) ==
    /\ running = job_id
    /\ pc[job_id] = "store"
    /\ midi_store' = (job_id :> local.midi_data[1]) @@ midi_store
    /\ jobs_store' = [jobs_store EXCEPT
                         ![job_id].status = "completed",
                         ![job_id].progress = 100,
                         ![job_id].result_url = Some(<<"/api/jobs", job_id, "download">>)]
    /\ trace' = LogProgress(trace, job_id, 100)
    /\ pc' = [pc EXCEPT ![job_id] = "cleanup"]
    /\ UNCHANGED <<uploads_store, files, transcriber, tf2_weights, checkpoint,
                   running, local, response, pvars, fvars, svars>>

RemoveFile(fs, file_path) == [f \in DOMAIN fs \ {file_path} |-> fs[f]]

\* line 275: os.remove(file_path) raises when the file does not exist
\* (the task loaded the file and has not been suspended since, so the file
\* is there unless something outside the program removed it)
CleanUp(job_id) ==
    /\ running = job_id
    /\ pc[job_id] = "cleanup"
    /\ LET file_path == jobs_store[job_id].file_path
       IN  IF file_path \in DOMAIN files
           THEN /\ files' = RemoveFile(files, file_path)
                /\ pc' = [pc EXCEPT ![job_id] = "done"]
                /\ running' = 0
                /\ local' = NoLocal
                /\ UNCHANGED trace
           ELSE /\ Raise(job_id, "cleanup")
                /\ trace' = [trace EXCEPT ![job_id].raised = "cleanup"]
                /\ UNCHANGED <<files, running>>
    /\ UNCHANGED <<uploads_store, jobs_store, midi_store, transcriber, tf2_weights,
                   checkpoint, response, pvars, fvars, svars>>

\* the except clause keeping the error field as it is
FailedJobNoError(job, exc) == [job EXCEPT !.status = "failed"]

\* the except clause writing progress 100 as for a job that has ended
FailedJobAtFullProgress(job, exc) ==
    [job EXCEPT !.status = "failed", !.error = exc, !.progress = 100]

\* lines 279-280
FailedJob(job, exc) == [job EXCEPT !.status = "failed", !.error = exc]

\* the except clause leaving the file in place
FilesAfterFailureKept(fs, file_path) == fs

\* lines 284-285
FilesAfterFailure(fs, file_path) ==
    IF file_path \in DOMAIN fs THEN RemoveFile(fs, file_path) ELSE fs

\* lines 277-285
HandleException(job_id) ==
    /\ running = job_id
    /\ pc[job_id] = "except"
    /\ jobs_store' = [jobs_store EXCEPT ![job_id] = FailedJob(@, local.exc)]
    /\ files' = FilesAfterFailure(files, jobs_store[job_id].file_path)
    /\ pc' = [pc EXCEPT ![job_id] = "done"]
    /\ running' = 0
    /\ local' = NoLocal
    /\ UNCHANGED <<uploads_store, midi_store, transcriber, tf2_weights, checkpoint,
                   response, trace, pvars, fvars, svars>>

\* the clock as a new job reads it: later than every job before it
Tick == Len(jobs_store) + 1

Next ==
    \/ \E valid \in BOOLEAN, content \in Contents : UploadAudio(valid, content)
    \/ \E upload_id \in UploadIds : StartTranscription(upload_id, Tick)
    \/ \E job_id \in JobIds : DownloadResult(job_id)
    \/ \E job_id \in JobIds : GetJobStatus(job_id)
    \/ \E job_id \in JobIds : TaskStart(job_id)
    \/ \E job_id \in JobIds, net \in NetOutcomes \X NetOutcomes, build \in BuildOutcomes :
          GetTranscriber(job_id, net, build)
    \/ \E job_id \in JobIds : TranscribeLoad(job_id)
    \/ \E job_id \in JobIds, build \in BuildOutcomes : TranscribeBuildModel(job_id, build)
    \/ \E job_id \in JobIds : TranscribeBranch(job_id)
    \/ \E job_id \in JobIds, run \in InferenceRuns : TranscribeModelPath(job_id, run)
    \/ \E job_id \in JobIds : TranscribeFallbackPath(job_id)
    \/ \E job_id \in JobIds : TranscribeProgress80(job_id)
    \/ \E job_id \in JobIds, written \in BOOLEAN : TranscribeCreateMidi(job_id, written)
    \/ \E job_id \in JobIds : StoreResult(job_id)
    \/ \E job_id \in JobIds : CleanUp(job_id)
    \/ \E job_id \in JobIds : HandleException(job_id)

Spec == Init /\ [][Next]_vars

(***************************************************************************)
(* Properties of the job state machine.                                    *)
(***************************************************************************)
Jobs == DOMAIN jobs_store

Ended(j) == pc[j] = "done"

StatusSteps ==
    {<<"pending", "processing">>, <<"processing", "completed">>,
     <<"processing", "failed">>}

\* C1: a job is created pending with progress 0; its status changes only
\* pending -> processing, processing -> completed or processing -> failed,
\* so completed and failed are never left.
C1_StatusStateMachine ==
    [][/\ \A j \in DOMAIN jobs_store' \ DOMAIN jobs_store :
             jobs_store'[j].status = "pending" /\ jobs_store'[j].progress = 0
       /\ \A j \in DOMAIN jobs_store :
             /\ j \in DOMAIN jobs_store'
             /\ \/ jobs_store'[j].status = jobs_store[j].status
                \/ <<jobs_store[j].status, jobs_store'[j].status>> \in StatusSteps]_vars

\* one job has ended completed and another has ended failed
C1_Witness ==
    \E j, k \in Jobs :
        /\ Ended(j) /\ jobs_store[j].status = "completed"
        /\ Ended(k) /\ jobs_store[k].status = "failed"

\* C2: a job whose task saw a stage raise ends failed with the exception's
\* message in its error field, and a failed job always has an error.
C2_RaiseEndsFailedWithMessage ==
    \A j \in Jobs :
        /\ jobs_store[j].status = "failed" => jobs_store[j].error # None
        /\ (Ended(j) /\ trace[j].raised # "none") =>
               /\ jobs_store[j].status = "failed"
               /\ jobs_store[j].error = Some(Message(trace[j].raised))

\* one job failed when the transcriber was constructed or the audio was
\* loaded, another when the MIDI was written
C2_Witness ==
    \E j, k \in Jobs :
        /\ Ended(j) /\ trace[j].raised \in {"construct", "load"}
        /\ jobs_store[j].status = "failed"
        /\ Ended(k) /\ trace[k].raised = "midi"
        /\ jobs_store[k].error = Some(Message("midi"))

\* C3: when the task of a job has ended, on either exit, the job's
\* temporary input file does not exist.
C3_InputFileRemovedOnEveryExit ==
    \A j \in Jobs : Ended(j) => jobs_store[j].file_path \notin DOMAIN files

\* a job has ended failed by an exception raised while its file existed
\* (the MIDI could not be written), and its file is gone
C3_Witness ==
    \E j \in Jobs :
        /\ Ended(j)
        /\ jobs_store[j].status = "failed"
        /\ trace[j].raised = "midi"
        /\ jobs_store[j].file_path \notin DOMAIN files

\* C4: an exception of the model inference never reaches the task:
\* _run_tf2_model_inference answers with the DSP fallback's events for the
\* same audio, transcribe goes on to the MIDI, and the job ends completed
\* with MIDI stored unless the MIDI synthesis itself raises.
C4_InferenceFailureFallsBack ==
    \A j \in Jobs :
        /\ trace[j].raised # "inference"
        /\ (trace[j].inference_raised /\ pc[j] = "progress_80") =>
               local.drum_events = DetectOnsetsFromAudio(local.audio)
        /\ (trace[j].inference_raised /\ Ended(j) /\ trace[j].raised # "midi") =>
               /\ jobs_store[j].status = "completed"
               /\ trace[j].returned
               /\ j \in DOMAIN midi_store

\* a job whose inference raised has ended completed, with the two notes the
\* DSP fallback finds in the three-onset waveform
C4_Witness ==
    \E j \in Jobs :
        /\ Ended(j)
        /\ trace[j].inference_raised
        /\ trace[j].path = "model"
        /\ jobs_store[j].status = "completed"
        /\ j \in DOMAIN midi_store
        /\ Len(midi_store[j].notes) = 2

\* C5: a model-load failure is never fatal: no job fails because the
\* construction of the DrumTranscriber raised, and a job that met a
\* model-load failure fails only for another reason.
C5_ModelLoadFailureNotFatal ==
    \A j \in Jobs :
        trace[j].model_load_failed =>
            /\ trace[j].raised # "construct"
            /\ (jobs_store[j].status = "failed" =>
                    trace[j].raised \in {"load", "midi"})

\* C6: download_result answers 200 with the stored MIDI exactly when the
\* job exists, is completed and has MIDI stored; 404 for an unknown job,
\* 400 for a job that is not completed, 404 for a completed job without
\* MIDI.  A 200 answer is always for a completed job.
C6_DownloadOnlyCompleted ==
    /\ [](response.op = "download" /\ response.code = 200 =>
             /\ response.id \in Jobs
             /\ jobs_store[response.id].status = "completed"
             /\ response.content = <<midi_store[response.id]>>)
    /\ [][(response' # response /\ response'.op = "download") =>
             LET j == response'.id
                 known == j \in DOMAIN jobs_store
                 completed == known /\ jobs_store[j].status = "completed"
                 stored == j \in DOMAIN midi_store
             IN  /\ ~known => response'.code = 404
                 /\ (known /\ ~completed) => response'.code = 400
                 /\ (completed /\ ~stored) => response'.code = 404
                 /\ (completed /\ stored) =>
                        /\ response'.code = 200
                        /\ response'.content = <<midi_store[j]>>
                 /\ response'.code # 200 => response'.content = <<>>]_vars

\* the MIDI of a completed job has been downloaded while another job, not
\* completed, exists
C6_Witness ==
    /\ response.op = "download"
    /\ response.code = 200
    /\ \E k \in Jobs : jobs_store[k].status # "completed"

\* C7: the progress values written for a job are integers in 0..100 and
\* never decrease, the job's progress is the last value written, and once
\* transcribe has returned the progress is at least 70.
C7_ProgressMonotonic ==
    \A j \in Jobs :
        LET written == trace[j].progress
        IN  /\ \A k \in 1..Len(written) : written[k] \in 0..100
            /\ \A a, b \in 1..Len(written) : a < b => written[a] <= written[b]
            /\ jobs_store[j].progress = written[Len(written)]
            /\ trace[j].returned => jobs_store[j].progress >= 70

\* a job has ended completed on the model path, another on the fallback
\* path or failed
C7_Witness ==
    \E j, k \in Jobs :
        /\ Ended(j) /\ trace[j].path = "model" /\ jobs_store[j].progress = 100
        /\ Ended(k) /\ trace[k].path # "model"

(***************************************************************************)
(* The peak pickers as a specification of their own: an input signal and   *)
(* threshold, and the result of the picker that was applied to them.       *)
(***************************************************************************)
PInit ==
    /\ signal \in Signals
    /\ threshold \in Thresholds
    /\ picker = "none"
    /\ peaks = <<>>
    /\ JInit
    /\ tf2_weights = FALSE
    /\ FIdle

ApplyFindOnsetFrames ==
    /\ picker = "none"
    /\ picker' = "frames"
    /\ peaks' = FindOnsetFrames(signal, [k \in 1..Len(signal) |-> 0], threshold)
    /\ UNCHANGED <<signal, threshold, jvars, fvars, svars>>

ApplyFindOnsetPeaks ==
    /\ picker = "none"
    /\ picker' = "peaks"
    /\ peaks' = FindOnsetPeaks(signal, threshold)
    /\ UNCHANGED <<signal, threshold, jvars, fvars, svars>>

PNext == ApplyFindOnsetFrames \/ ApplyFindOnsetPeaks

SpecPeaks == PInit /\ [][PNext]_vars

(***************************************************************************)
(* What the claims about the pickers speak of.                             *)
(***************************************************************************)
Indices(s) == 0..(Len(s) - 1)

Range(s) == {s[k] : k \in 1..Len(s)}

Ascending(s) == \A a, b \in 1..Len(s) : a < b => s[a] < s[b]

\* the interior strict local maxima above the threshold
InteriorPeaks(s, t) ==
    {i \in 1..(Len(s) - 2) :
        At(s, i) > t /\ At(s, i) > At(s, i - 1) /\ At(s, i) > At(s, i + 1)}

\* the maximal contiguous runs of s > t, as pairs <<first, last>> (0-based)
Runs(s, t) ==
    {r \in Indices(s) \X Indices(s) :
        /\ r[1] <= r[2]
        /\ \A k \in r[1]..r[2] : At(s, k) > t
        /\ (r[1] = 0 \/ At(s, r[1] - 1) <= t)
        /\ (r[2] = Len(s) - 1 \/ At(s, r[2] + 1) <= t)}

RunMax(s, r) == CHOOSE m \in {At(s, k) : k \in r[1]..r[2]} :
                    \A k \in r[1]..r[2] : At(s, k) <= m

\* C8: _find_onset_frames returns, ascending, exactly the interior indices
\* that are above the threshold and strictly above both neighbours.
C8_FramesAreInteriorStrictMaxima ==
    picker = "frames" =>
        /\ Range(peaks) = InteriorPeaks(signal, threshold)
        /\ Ascending(peaks)
        /\ (Len(signal) < 3 => peaks = <<>>)
        /\ (signal = ExampleFrames /\ threshold = 5 => peaks = <<2>>)

\* a signal whose maximum sits on the boundary and which has one interior
\* peak has been handed to _find_onset_frames
C8_Witness ==
    /\ picker = "frames"
    /\ signal = <<3, 1, 2, 1>>
    /\ threshold = 0
    /\ peaks = <<2>>

\* the runs in ascending order of their first index
RECURSIVE RunSeqFrom(_, _, _)
RunSeqFrom(s, t, i) ==
    IF i >= Len(s) THEN <<>>
    ELSE IF \E r \in Runs(s, t) : r[1] = i
         THEN LET r == CHOOSE q \in Runs(s, t) : q[1] = i
              IN  <<r>> \o RunSeqFrom(s, t, r[2] + 1)
         ELSE RunSeqFrom(s, t, i + 1)

RunSeq(s, t) == RunSeqFrom(s, t, 0)

\* the extended window of a run: padded by one index on each side, clipped
\* to the signal, then extended forward while the signal is increasing
RunWindow(s, r) ==
    LET lo == IF r[1] = 0 THEN 0 ELSE r[1] - 1
        hi0 == IF r[2] + 2 > Len(s) THEN Len(s) ELSE r[2] + 2
        hi == CHOOSE e \in hi0..Len(s) :
                /\ \A k \in hi0..(e - 1) : At(s, k) > At(s, k - 1)
                /\ (e = Len(s) \/ At(s, e) <= At(s, e - 1))
    IN  <<lo, hi>>

\* the first position of the maximum of s over the window <<lo, hi>>
FirstMaxIn(s, w) ==
    CHOOSE i \in w[1]..(w[2] - 1) :
        /\ \A k \in w[1]..(w[2] - 1) : At(s, k) <= At(s, i)
        /\ \A k \in w[1]..(i - 1) : At(s, k) < At(s, i)

\* C9: every index _find_onset_peaks returns is inside the signal, and for
\* every maximal above-threshold run an index is reported that lies inside
\* the run and carries the run's maximum value.
C9_PeaksAreRunMaxima ==
    picker = "peaks" =>
        /\ \A k \in 1..Len(peaks) : peaks[k] >= 0 /\ peaks[k] < Len(signal)
        /\ \A r \in Runs(signal, threshold) :
              \E k \in 1..Len(peaks) :
                  /\ peaks[k] \in r[1]..r[2]
                  /\ At(signal, peaks[k]) = RunMax(signal, r)

\* C10: _find_onset_peaks returns exactly one index per maximal run, in run
\* order, each the first maximum of the run's extended window; no value
\* above the threshold gives the empty result.
C10_OnePeakPerRun ==
    picker = "peaks" =>
        LET runs == RunSeq(signal, threshold)
        IN  /\ Len(peaks) = Len(runs)
            /\ \A k \in 1..Len(runs) :
                  k <= Len(peaks) =>
                      peaks[k] = FirstMaxIn(signal, RunWindow(signal, runs[k]))
            /\ \A a, b \in 1..Len(peaks) : a < b => peaks[a] <= peaks[b]
            /\ (Runs(signal, threshold) = {} => peaks = <<>>)

(***************************************************************************)
(* The functions of the transcriber as a specification of their own: the   *)
(* arguments of one call, the function that was applied to them and what   *)
(* it returned.  A collection that was returned may then be handed to      *)
(* _create_midi.                                                           *)
(***************************************************************************)
MaxOnsets == 2

\* centroids (Hz) and zero-crossing rates (hundredths) on both sides of
\* every threshold of the table
Centroids ==
    {0, 149, 150, 349, 350, 499, 500, 749, 750, 999, 1000, 1500, 2000, 2001,
     3000, 3001}

Zcrs == {10, 11, 20, 21}

Window(centroid, zcr) == [len |-> 1024, centroid |-> centroid, zcr |-> zcr]

\* an onset at the very end of the waveform: the window cut there is empty
EmptyWindow == [len |-> 0, centroid |-> 0, zcr |-> 0]

Windows == {Window(c, z) : c \in Centroids, z \in Zcrs} \cup {EmptyWindow}

\* one window for each row of the table, one in the gap, and the empty one
SomeWindows ==
    {Window(0, 10), Window(349, 11), Window(349, 10), Window(3001, 21),
     Window(3001, 20), Window(500, 10), Window(999, 21), Window(1500, 21),
     EmptyWindow}

RECURSIVE SeqsUpTo(_, _)
SeqsUpTo(S, n) ==
    IF n = 0 THEN {<<>>}
    ELSE LET shorter == SeqsUpTo(S, n - 1)
         IN  shorter \cup {Append(s, x) : s \in shorter, x \in S}

\* the onsets librosa reports, 23 ms apart, for a sequence of windows
OnsetsOf(windows) ==
    [k \in 1..Len(windows) |->
        [time |-> 23 * (k - 1), len |-> windows[k].len,
         centroid |-> windows[k].centroid, zcr |-> windows[k].zcr]]

AudioInputs ==
    {OnsetsOf(<<w>>) : w \in Windows}
    \cup {OnsetsOf(ws) : ws \in SeqsUpTo(SomeWindows, MaxOnsets)}

Returned(events) == [events |-> events, midi |-> <<>>]

EInitAudio ==
    \E audio \in AudioInputs : input = [kind |-> "audio", audio |-> audio]

ApplyDetectOnsetsFromAudio ==
    /\ applied = "none"
    /\ input.kind = "audio"
    /\ applied' = "_detect_onsets_from_audio"
    /\ output' = Returned(DetectOnsetsFromAudio(input.audio))
    /\ UNCHANGED <<input, job_files, jvars, pvars, svars>>

(***************************************************************************)
(* DrumTranscriber._predictions_to_events.  The predictions are the        *)
(* tensors onset_probs, frame_probs and velocity, one column per drum      *)
(* class; keys is the set of names the dict holds.                         *)
(***************************************************************************)
egmd_to_midi ==
    (0 :> 36) @@ (1 :> 38) @@ (2 :> 42) @@ (3 :> 46) @@ (4 :> 49) @@
    (5 :> 51) @@ (6 :> 45) @@ (7 :> 47) @@ (8 :> 50)

onset_threshold == 5

default_velocity == 64

\* for frame in onset_frames, from the k-th on
RECURSIVE AppendFrames(_, _, _, _, _, _)
AppendFrames(drum_events, midi_pitch, onset_frames, predictions, drum_idx, k) ==
    IF k > Len(onset_frames) THEN drum_events
    ELSE AppendFrames(
            AppendEvent(drum_events, midi_pitch,
                Tuple(FrameTime(onset_frames[k], sample_rate),
                      IF "velocity" \in predictions.keys
                      THEN ClipVelocity(At(predictions.velocity[drum_idx],
                                           onset_frames[k]))
                      ELSE default_velocity)),
            midi_pitch, onset_frames, predictions, drum_idx, k + 1)

\* for drum_idx in range(onset_probs.shape[1]), from drum_idx on
RECURSIVE ProcessClasses(_, _, _)
ProcessClasses(drum_events, predictions, drum_idx) ==
    IF drum_idx >= predictions.ncols THEN drum_events
    ELSE IF drum_idx \notin DOMAIN egmd_to_midi
         THEN ProcessClasses(drum_events, predictions, drum_idx + 1)
    ELSE IF egmd_to_midi[drum_idx] \notin {DRUM_MAP[k] : k \in 1..Len(DRUM_MAP)}
         THEN ProcessClasses(drum_events, predictions, drum_idx + 1)
    ELSE ProcessClasses(
            AppendFrames(drum_events, egmd_to_midi[drum_idx],
                FindOnsetFrames(predictions.onset_probs[drum_idx],
                                predictions.frame_probs[drum_idx], onset_threshold),
                predictions, drum_idx, 1),
            predictions, drum_idx + 1)

PredictionsToEvents(predictions) ==
    IF "onset_probs" \notin predictions.keys \/ "frame_probs" \notin predictions.keys
    THEN EmptyEvents(DRUM_MAP)
    ELSE ProcessClasses(EmptyEvents(DRUM_MAP), predictions, 0)

(***************************************************************************)
(* DrumTranscriber._estimate_velocity and _detect_drum_events.  Strengths  *)
(* are in hundredths.  A peak of the onset envelope is given by its time,  *)
(* its strength, whether a window of features lies around it, and which of *)
(* _is_kick, _is_snare, _is_hihat is the first to accept its spectrum.     *)
(***************************************************************************)
\* int(x) for x in hundredths: towards zero
IntOf(x) == IF x >= 0 THEN x \div 100 ELSE 0 - ((0 - x) \div 100)

\* the estimate without the lower end of the range
EstimateVelocityNoFloor(strength) == IntOf(Min(12700, strength * 50))

\* int(min(127, max(1, strength * 50)))
EstimateVelocity(strength) == IntOf(Min(12700, Max(100, strength * 50)))

DetectDrumEvent(drum_events, peak) ==
    IF ~ peak.window THEN drum_events
    ELSE IF peak.accepts = "_is_kick"
         THEN AppendEvent(drum_events, 36,
                          Dict(peak.time, EstimateVelocity(peak.strength)))
    ELSE IF peak.accepts = "_is_snare"
         THEN AppendEvent(drum_events, 38,
                          Dict(peak.time, EstimateVelocity(peak.strength)))
    ELSE IF peak.accepts = "_is_hihat"
         THEN AppendEvent(drum_events, 42,
                          Dict(peak.time, EstimateVelocity(peak.strength)))
    ELSE AppendEvent(drum_events, 42,
                     Dict(peak.time, EstimateVelocity(peak.strength)))

RECURSIVE DetectDrumEventsFrom(_, _, _)
DetectDrumEventsFrom(drum_events, envelope_peaks, k) ==
    IF k > Len(envelope_peaks) THEN drum_events
    ELSE DetectDrumEventsFrom(DetectDrumEvent(drum_events, envelope_peaks[k]),
                              envelope_peaks, k + 1)

DetectDrumEvents(envelope_peaks) ==
    DetectDrumEventsFrom(EmptyEvents(DRUM_MAP), envelope_peaks, 1)

(***************************************************************************)
(* DrumTranscriber._compute_spectrogram_for_model: the audio is resampled  *)
(* to 16 kHz unless it already has that rate, and the frames of the        *)
(* spectrogram are hop_length samples of the resampled audio apart.        *)
(***************************************************************************)
model_rate == 16000

ComputeSpectrogramForModel(sr) ==
    [sr |-> IF sr # model_rate THEN model_rate ELSE sr, hop_length |-> hop_length]

(***************************************************************************)
(* Arguments.                                                              *)
(***************************************************************************)
\* velocity values in hundredths, below, inside and above the range
VelocityValues == {0 - 50, 0, 1, 50, 99, 100, 200}

\* onset strengths in hundredths, negative, small, at the ends of the range
\* and very large
Strengths == {0 - 300, 0, 1, 2, 3, 100, 253, 254, 255, 1000000}

\* the configured sample rate: the default and the rate of the model
SampleRates == {sample_rate, model_rate}

\* probability curves over the frames: none, one peak, a flat top
Curves == {ZeroColumn, ExampleFrames, <<0, 9, 9, 0, 0>>, <<0, 4, 0, 9, 0>>}

\* predictions with ncols classes whose onset_probs are zero except in
\* column col, which holds sig; the velocity is vel everywhere
PredictionsWith(names, ncols, col, sig, vel) ==
    [keys |-> names, ncols |-> ncols,
     onset_probs |-> [c \in 0..(ncols - 1) |-> IF c = col THEN sig ELSE ZeroColumn],
     frame_probs |-> [c \in 0..(ncols - 1) |-> ZeroColumn],
     velocity |-> [c \in 0..(ncols - 1) |-> [k \in 1..Frames |-> vel]]]

PredictionNames ==
    {{"onset_probs", "frame_probs", "velocity"}, {"onset_probs", "frame_probs"},
     {"onset_probs", "velocity"}}

PredictionInputs ==
    {PredictionsWith(names, 9, col, sig, vel) :
        names \in PredictionNames, col \in 0..8, sig \in Curves,
        vel \in {50, 200}}
    \cup {PredictionsWith({"onset_probs", "frame_probs", "velocity"}, 88, col,
                          ExampleFrames, vel) :
             col \in {8, 9, 45}, vel \in VelocityValues}

\* the columns the drum_key_ranges read, and those of the 9 classes
ClassColumns88 == 35..59

ClassColumns9 == 0..8

WithoutVelocity == {"onset_probs", "offset_probs", "frame_probs"}

EventOutputs ==
    {OutputsWith(names, 88, col, sig, 50) :
        names \in {AllOutputNames, WithoutVelocity}, col \in ClassColumns88,
        sig \in Curves}
    \cup {OutputsWith(names, 9, col, sig, 50) :
             names \in {AllOutputNames, {"onset_probs", "frame_probs", "velocity"}},
             col \in ClassColumns9, sig \in Curves}

EventRuns ==
    {[spectrogram |-> "raise", model |-> "ok", outputs |-> NoOutputs],
     [spectrogram |-> "ok", model |-> "raise", outputs |-> NoOutputs]}
    \cup {[spectrogram |-> "ok", model |-> "ok", outputs |-> o] : o \in EventOutputs}

\* the indices a peak picker can hand to the loop over onset_indices
OnsetIndices == {<<>>, <<2>>, <<1, 3>>}

EnvelopePeak(time, strength, accepts) ==
    [time |-> time, strength |-> strength, window |-> TRUE, accepts |-> accepts]

EnvelopePeaks ==
    {<<>>, <<[time |-> 0, strength |-> 100, window |-> FALSE, accepts |-> "none"]>>}
    \cup {<<EnvelopePeak(0, s, a)>> :
             s \in Strengths, a \in {"_is_kick", "_is_snare", "_is_hihat", "none"}}
    \cup {<<EnvelopePeak(0, 100, "_is_kick"), EnvelopePeak(116, 253, "none")>>}

EInitPredictions ==
    \E predictions \in PredictionInputs :
        input = [kind |-> "predictions", predictions |-> predictions]

EInitInference ==
    \E audio \in Waveforms, sr \in SampleRates, run \in EventRuns :
        input = [kind |-> "inference", audio |-> audio, sr |-> sr, run |-> run]

EInitOnsets ==
    \E k \in 1..Len(drum_key_ranges), onset_indices \in OnsetIndices,
       vel \in VelocityValues, sr \in SampleRates :
        input = [kind |-> "onsets", drum_midi |-> drum_key_ranges[k][1],
                 onset_indices |-> onset_indices,
                 pitch_velocities |-> [f \in 1..Frames |-> vel], sr |-> sr]

EInitStrength ==
    \E strength \in Strengths : input = [kind |-> "strength", strength |-> strength]

EInitPeaks ==
    \E envelope_peaks \in EnvelopePeaks :
        input = [kind |-> "peaks", envelope_peaks |-> envelope_peaks]

ApplyPredictionsToEvents ==
    /\ applied = "none"
    /\ input.kind = "predictions"
    /\ applied' = "_predictions_to_events"
    /\ output' = Returned(PredictionsToEvents(input.predictions))
    /\ UNCHANGED <<input, job_files, jvars, pvars, svars>>

\* transcribe calls _run_tf2_model_inference(audio, self.sample_rate)
ApplyRunTf2ModelInference ==
    /\ applied = "none"
    /\ input.kind = "inference"
    /\ applied' = "_run_tf2_model_inference"
    /\ output' = Returned(RunTf2ModelInference(input.audio, input.sr, input.run).events)
    /\ UNCHANGED <<input, job_files, jvars, pvars, svars>>

\* the loop of _process_tf2_model_outputs over the onset_indices of one
\* column of a drum, with the sr that _run_tf2_model_inference passes on
ApplyOnsetLoop ==
    /\ applied = "none"
    /\ input.kind = "onsets"
    /\ applied' = "onset_loop"
    /\ output' = Returned(AppendPeaks(EmptyEvents(drum_mapping), input.drum_midi,
                                      input.onset_indices, input.pitch_velocities,
                                      input.sr, 1))
    /\ UNCHANGED <<input, job_files, jvars, pvars, svars>>

ApplyEstimateVelocity ==
    /\ applied = "none"
    /\ input.kind = "strength"
    /\ applied' = "_estimate_velocity"
    /\ output' = [events |-> <<>>, midi |-> <<>>,
                  velocity |-> EstimateVelocity(input.strength)]
    /\ UNCHANGED <<input, job_files, jvars, pvars, svars>>

ApplyDetectDrumEvents ==
    /\ applied = "none"
    /\ input.kind = "peaks"
    /\ applied' = "_detect_drum_events"
    /\ output' = Returned(DetectDrumEvents(input.envelope_peaks))
    /\ UNCHANGED <<input, job_files, jvars, pvars, svars>>

\* midi_data = self._create_midi(drum_events) on a collection returned
ApplyCreateMidi ==
    /\ applied \notin {"none", "_estimate_velocity"}
    /\ output.midi = <<>>
    /\ output' = [output EXCEPT !.midi = <<CreateMidi(output.events)>>]
    /\ UNCHANGED <<applied, input, job_files, jvars, pvars, svars>>

EInit ==
    /\ \/ EInitAudio
       \/ EInitPredictions
       \/ EInitInference
       \/ EInitOnsets
       \/ EInitStrength
       \/ EInitPeaks
    /\ applied = "none"
    /\ output = <<>>
    /\ job_files = <<>>
    /\ SIdle
    /\ JInit
    /\ tf2_weights = FALSE
    /\ PIdle

ENext ==
    \/ ApplyDetectOnsetsFromAudio
    \/ ApplyPredictionsToEvents
    \/ ApplyRunTf2ModelInference
    \/ ApplyOnsetLoop
    \/ ApplyEstimateVelocity
    \/ ApplyDetectDrumEvents
    \/ ApplyCreateMidi

SpecEvents == EInit /\ [][ENext]_vars

(***************************************************************************)
(* What the claims about the events speak of.                              *)
(***************************************************************************)
\* the events a collection holds under a pitch
EventsUnder(collection, pitch) ==
    IF \E k \in 1..Len(collection) : collection[k].pitch = pitch
    THEN collection[CHOOSE k \in 1..Len(collection) :
                        collection[k].pitch = pitch].events
    ELSE <<>>

Keys(collection) == {collection[k].pitch : k \in 1..Len(collection)}

\* every event of a collection, with its pitch and its place in the list
AllEvents(collection) ==
    UNION {{<<collection[k].pitch, collection[k].events[i], i>> :
               i \in 1..Len(collection[k].events)} : k \in 1..Len(collection)}

NumberOfEvents(collection) ==
    LET RECURSIVE Count(_)
        Count(k) == IF k > Len(collection) THEN 0
                    ELSE Len(collection[k].events) + Count(k + 1)
    IN  Count(1)

\* some class of the collection holds an event at the time
EventAt(collection, time) ==
    \E k \in 1..Len(collection) :
        \E i \in 1..Len(collection[k].events) :
            collection[k].events[i].time = time

DetectedOnsets == applied = "_detect_onsets_from_audio"

\* the rows of the decision table as conditions that exclude each other
TableRow(pitch, o) ==
    CASE pitch = 36 -> o.centroid < 150
      [] pitch = 38 -> o.centroid >= 150 /\ o.centroid < 350 /\ o.zcr > 10
      [] pitch = 42 -> o.centroid > 3000 /\ o.zcr > 20
      [] pitch = 49 -> o.centroid > 2000 /\ ~ (o.centroid > 3000 /\ o.zcr > 20)
      [] pitch = 45 -> \/ o.centroid >= 150 /\ o.centroid < 350 /\ o.zcr <= 10
                       \/ o.centroid >= 350 /\ o.centroid < 500
      [] pitch = 47 -> o.centroid >= 500 /\ o.centroid < 750
      [] pitch = 50 -> o.centroid >= 750 /\ o.centroid < 1000
      [] OTHER -> FALSE

TableVelocity(pitch) ==
    CASE pitch = 36 -> 80
      [] pitch = 38 -> 70
      [] pitch = 42 -> 60
      [] OTHER -> 65

\* the events the table asks for under a pitch, in the order of the onsets
TableEvents(pitch, audio) ==
    LET hits == SelectSeq(audio, LAMBDA o : o.len > 0 /\ TableRow(pitch, o))
    IN  [k \in 1..Len(hits) |-> Tuple(hits[k].time, TableVelocity(pitch))]

\* C11: the DSP fallback files every onset that has a window under the
\* class and velocity of the first row of the table that it satisfies
\* (Kick 36/80, Snare 38/70, Hi-Hat Closed 42/60, Crash 49/65, Tom Low 45,
\* Tom Mid 47, Tom High 50 at 65), in the order of the onsets, and no onset
\* gives more than one event.
C11_DspClassifiesByTable ==
    DetectedOnsets =>
        /\ \A pitch \in 0..127 :
               EventsUnder(output.events, pitch) = TableEvents(pitch, input.audio)
        /\ NumberOfEvents(output.events) <= Len(input.audio)
        /\ \A k \in 1..Len(input.audio) :
               Cardinality({pe \in AllEvents(output.events) :
                               pe[2].time = input.audio[k].time}) <= 1

\* two onsets were classified: one above 3000 Hz and noisy, which the
\* hi-hat row takes before the crash row, and a snare
C11_Witness ==
    /\ DetectedOnsets
    /\ Len(input.audio) = 2
    /\ input.audio[1].centroid > 3000 /\ input.audio[1].zcr > 20
    /\ EventsUnder(output.events, 42) = <<Tuple(0, 60)>>
    /\ EventsUnder(output.events, 38) = <<Tuple(23, 70)>>

Classified(o) == o.len > 0

\* C12 as stated: an onset in the 1000-2000 Hz gap, and an onset between
\* 350 and 3000 Hz whose zero-crossing rate is low, give no event in any
\* class.
C12_NonNoisyMidBandUnclassified ==
    DetectedOnsets =>
        \A k \in 1..Len(input.audio) :
            LET o == input.audio[k]
            IN  (Classified(o) /\
                    \/ o.centroid >= 1000 /\ o.centroid <= 2000
                    \/ o.centroid > 350 /\ o.centroid < 3000 /\ o.zcr <= 10)
                => ~ EventAt(output.events, o.time)

\* C12 amended: an onset gives no event in any class exactly when its
\* centroid lies in the gap from 1000 to 2000 Hz, whatever its
\* zero-crossing rate; between 350 and 3000 Hz outside the gap a quiet onset
\* is a tom (below 1000 Hz) or a crash (above 2000 Hz).
C12_OnlyGapUnclassified ==
    DetectedOnsets =>
        \A k \in 1..Len(input.audio) :
            LET o == input.audio[k]
            IN  Classified(o) =>
                /\ ~ EventAt(output.events, o.time)
                       <=> (o.centroid >= 1000 /\ o.centroid <= 2000)
                /\ (o.centroid >= 350 /\ o.centroid < 1000) =>
                       \E pitch \in {45, 47, 50} :
                           Tuple(o.time, 65) \in Range(EventsUnder(output.events, pitch))
                /\ (o.centroid > 2000 /\ o.centroid <= 3000) =>
                       Tuple(o.time, 65) \in Range(EventsUnder(output.events, 49))

\* a noisy onset at 1500 Hz and a quiet one at 500 Hz were classified: the
\* first gave nothing, the second a Tom Mid
C12_Witness ==
    /\ DetectedOnsets
    /\ Len(input.audio) = 2
    /\ input.audio[1].centroid = 1500 /\ input.audio[1].zcr = 21
    /\ input.audio[2].centroid = 500 /\ input.audio[2].zcr = 10
    /\ NumberOfEvents(output.events) = 1
    /\ EventsUnder(output.events, 47) = <<Tuple(23, 65)>>

\* the pitches of the fixed table of drum classes
DrumPitches == {36, 38, 42, 46, 49, 51, 45, 47, 50}

NotesOfMidi == IF output.midi = <<>> THEN <<>> ELSE output.midi[1].notes

\* the collection came from one of the three producers that transcribe or
\* a caller can reach
ProducedEvents ==
    applied \in {"_detect_onsets_from_audio", "_run_tf2_model_inference",
                 "_predictions_to_events"}

\* C13: a collection produced by the DSP fallback, by the model inference
\* adapter or by the onset-curve adapter, and the MIDI made of it, use only
\* the pitches 36, 38, 42, 46, 49, 51, 45, 47, 50: the collection has no
\* class, event or note of another pitch.
C13_OnlyTablePitches ==
    ProducedEvents =>
        /\ Keys(output.events) \subseteq DrumPitches
        /\ \A pe \in AllEvents(output.events) : pe[1] \in DrumPitches
        /\ \A k \in 1..Len(NotesOfMidi) : NotesOfMidi[k].pitch \in DrumPitches

\* v is int(clip(x, 1, 127)) for x in hundredths
Clipped(x, v) ==
    /\ v \in 1..127
    /\ x <= 100 => v = 1
    /\ x >= 12700 => v = 127
    /\ (x > 100 /\ x < 12700) => (v * 100 <= x /\ x < (v + 1) * 100)

VelocitiesOf(collection) == {pe[2].velocity : pe \in AllEvents(collection)}

HasEvents == applied \notin {"none", "_estimate_velocity"}

\* C14: every event carries an integer velocity from 1 to 127, and so does
\* every note made of it: the DSP fallback gives 80, 70, 60 or 65; the
\* onset-curve adapter and the loop of the model adapter give the velocity
\* value times 127 clipped to [1, 127] and truncated (64 without a velocity
\* tensor); the band-energy variant gives strength times 50 clipped and
\* truncated, also for negative and very large values.
C14_VelocityInMidiRange ==
    /\ HasEvents => VelocitiesOf(output.events) \subseteq 1..127
    /\ HasEvents => \A k \in 1..Len(NotesOfMidi) : NotesOfMidi[k].velocity \in 1..127
    /\ DetectedOnsets => VelocitiesOf(output.events) \subseteq {80, 70, 60, 65}
    /\ applied = "_predictions_to_events" =>
           \A v \in VelocitiesOf(output.events) :
               IF "velocity" \in input.predictions.keys
               THEN Clipped(input.predictions.velocity[0][1] * 127, v)
               ELSE v = 64
    /\ applied = "onset_loop" =>
           \A v \in VelocitiesOf(output.events) :
               Clipped(input.pitch_velocities[1] * 127, v)
    /\ applied = "_estimate_velocity" => Clipped(input.strength * 50, output.velocity)
    /\ applied = "_detect_drum_events" =>
           \A pe \in AllEvents(output.events) :
               \E k \in 1..Len(input.envelope_peaks) :
                   /\ input.envelope_peaks[k].time = pe[2].time
                   /\ Clipped(input.envelope_peaks[k].strength * 50, pe[2].velocity)

\* the band-energy variant met a peak of negative strength and one of very
\* large strength: their events carry 1 and 127
C14_Witness ==
    /\ applied = "_detect_drum_events"
    /\ \E k \in 1..Len(input.envelope_peaks) :
           /\ input.envelope_peaks[k].strength < 0
           /\ 1 \in VelocitiesOf(output.events)

TimesOf(events) == [k \in 1..Len(events) |-> events[k].time]

\* the model was called and returned its outputs
ModelAnswered ==
    /\ applied = "_run_tf2_model_inference"
    /\ input.run.spectrogram = "ok"
    /\ input.run.model = "ok"

\* C15: when the outputs of the model hold no velocity tensor, the adapter
\* reports the same onsets, class by class, as it reports for the same
\* outputs with a velocity tensor, each with the default velocity 64.
C15_MissingVelocityDefaults ==
    /\ (ModelAnswered /\ "velocity_values" \notin input.run.outputs.keys) =>
           LET with == ProcessTf2ModelOutputs(
                           [input.run.outputs EXCEPT !.keys = @ \cup {"velocity_values"}],
                           input.sr)
           IN  /\ \A pitch \in 0..127 :
                      TimesOf(EventsUnder(output.events, pitch))
                          = TimesOf(EventsUnder(with, pitch))
               /\ VelocitiesOf(output.events) \subseteq {default_velocity}
    /\ (/\ applied = "_predictions_to_events"
        /\ "velocity" \notin input.predictions.keys) =>
           LET with == PredictionsToEvents(
                           [input.predictions EXCEPT !.keys = @ \cup {"velocity"}])
           IN  /\ \A pitch \in 0..127 :
                      TimesOf(EventsUnder(output.events, pitch))
                          = TimesOf(EventsUnder(with, pitch))
               /\ VelocitiesOf(output.events) \subseteq {default_velocity}

ClassPitches(ncols, col) ==
    IF ncols = 9
    THEN {egmd_to_midi[col]}
    ELSE {IF drum_key_ranges[k][1] = 41 THEN 45 ELSE drum_key_ranges[k][1] :
             k \in {k \in 1..Len(drum_key_ranges) :
                       drum_key_ranges[k][2] <= col /\ col <= drum_key_ranges[k][3]}}
         \cup {drum_key_ranges[k][1] :
                  k \in {k \in 1..Len(drum_key_ranges) :
                            drum_key_ranges[k][2] <= col /\ col <= drum_key_ranges[k][3]}}

\* C17: for outputs of 88 columns and of 9 columns alike, a peak of the
\* onset probabilities above the threshold in a column of one of the nine
\* classes gives an event for that class.
C17_BothContractsYieldEvents ==
    (ModelAnswered /\ {"onset_probs", "velocity_values"} \subseteq input.run.outputs.keys) =>
        \A col \in 0..(input.run.outputs.ncols - 1) :
            (/\ ClassPitches(input.run.outputs.ncols, col) # {}
             /\ InteriorPeaks(input.run.outputs.onset_probs[col],
                              onset_peak_threshold) # {}) =>
                \E pitch \in ClassPitches(input.run.outputs.ncols, col) :
                    EventsUnder(output.events, pitch) # <<>>

MidiWritten == HasEvents /\ output.midi # <<>>

\* the note _create_midi is to make of an event filed under a pitch
NoteFor(pitch, event) ==
    [pitch |-> pitch, velocity |-> event.velocity, start |-> event.time,
     end |-> event.time + 100]

\* C18: _create_midi makes exactly one note of every event of the
\* collection, of a tuple and of a dict alike: its pitch is the key the
\* event is filed under, its velocity the event's, its start the event's
\* time and its end 0.1 s later; there are as many notes as events, and an
\* empty collection gives a file with its header and no note.
C18_OneNotePerEvent ==
    MidiWritten =>
        /\ output.midi[1].chunk = "MThd"
        /\ Len(NotesOfMidi) = NumberOfEvents(output.events)
        /\ \A pe \in AllEvents(output.events) :
               Cardinality({k \in 1..Len(NotesOfMidi) :
                               NotesOfMidi[k] = NoteFor(pe[1], pe[2])})
               = Cardinality({qe \in AllEvents(output.events) :
                                 NoteFor(qe[1], qe[2]) = NoteFor(pe[1], pe[2])})
        /\ \A k \in 1..Len(NotesOfMidi) :
               /\ NotesOfMidi[k].end = NotesOfMidi[k].start + 100
               /\ \E pe \in AllEvents(output.events) :
                      NotesOfMidi[k] = NoteFor(pe[1], pe[2])

\* the MIDI of a collection of two dict events was written: two notes, a
\* kick of velocity 50 at 0 ms and a hi-hat of velocity 126 at 116 ms
C18_Witness ==
    /\ MidiWritten
    /\ applied = "_detect_drum_events"
    /\ NotesOfMidi = <<Note(50, 36, 0, 100), Note(126, 42, 116, 216)>>

(***************************************************************************)
(* What the claims about the HTTP handlers speak of.                       *)
(***************************************************************************)
StoresUnchanged == UNCHANGED <<uploads_store, jobs_store, midi_store>>

Rejected(code) == response'.code = code /\ StoresUnchanged /\ UNCHANGED files

\* C19: a request that is rejected changes no state: an upload with an
\* invalid extension is answered 400 and adds no upload; a transcribe
\* request for an unknown upload is answered 404 and creates no job; a
\* status or download request for an unknown job is answered 404; and no
\* step answered 400 or 404 changes uploads_store, jobs_store or
\* midi_store.
C19_RejectedRequestChangesNothing ==
    [][/\ (/\ response'.op = "upload"
           /\ \E content \in Contents : UploadAudio(FALSE, content)) => Rejected(400)
       /\ \A upload_id \in UploadIds :
              (/\ response'.op = "transcribe"
               /\ upload_id \notin uploads_store
               /\ StartTranscription(upload_id, Tick)) => Rejected(404)
       /\ \A job_id \in JobIds :
              (/\ response'.op \in {"status", "download"}
               /\ job_id \notin DOMAIN jobs_store
               /\ GetJobStatus(job_id) \/ DownloadResult(job_id)) => Rejected(404)
       /\ (response' # response /\ response'.code \in {400, 404}) => StoresUnchanged
      ]_vars

\* with one upload and one job in the stores, an upload with an invalid
\* extension has been answered 400
C19_Witness ==
    /\ response.op = "upload"
    /\ response.code = 400
    /\ Cardinality(uploads_store) = 1
    /\ Len(jobs_store) = 1

(***************************************************************************)
(* list_jobs of main.py and StorageAdapter.list_jobs (local storage), as a *)
(* specification of their own next to the requests and calls that fill     *)
(* jobs_store and the jobs directory.  A job file is given by its data and *)
(* its modification time.                                                  *)
(***************************************************************************)
MaxClock == 3

\* list.sort(key=..., reverse=True) and sorted(..., reverse=True) on items
\* [key, value]: a stable sort, items of equal key keep their order
InsertReverse(sorted, x) ==
    LET p == Cardinality({k \in 1..Len(sorted) : sorted[k].key >= x.key})
    IN  SubSeq(sorted, 1, p) \o <<x>> \o SubSeq(sorted, p + 1, Len(sorted))

RECURSIVE SortReverseFrom(_, _, _)
SortReverseFrom(sorted, items, k) ==
    IF k > Len(items) THEN sorted
    ELSE SortReverseFrom(InsertReverse(sorted, items[k]), items, k + 1)

SortReverse(items) == SortReverseFrom(<<>>, items, 1)

ValuesOf(items) == [k \in 1..Len(items) |-> items[k].value]

\* a slice that starts at the first element whatever lo is
PySliceFromStart(s, lo, hi) == Slice(s, 0, Min(hi - lo, Len(s)))

\* s[lo:hi] of Python for 0 <= lo <= hi: the ends are cut at len(s)
PySlice(s, lo, hi) == Slice(s, Min(lo, Len(s)), Min(hi, Len(s)))

\* list_jobs(limit, offset) of main.py
ListJobsResponse(limit, offset) ==
    LET all_jobs == SortReverse([k \in 1..Len(jobs_store) |->
                        [key |-> jobs_store[k].created_at, value |-> jobs_store[k]]])
    IN  [total |-> Len(all_jobs),
         jobs |-> PySlice(ValuesOf(all_jobs), offset, offset + limit),
         limit |-> limit, offset |-> offset]

ListJobs(limit, offset) ==
    /\ running = 0
    /\ applied' = "list_jobs"
    /\ input' = [kind |-> "list", limit |-> limit, offset |-> offset]
    /\ output' = ListJobsResponse(limit, offset)
    /\ UNCHANGED <<job_files, jvars, pvars, svars>>

\* the last modification time in the jobs directory, 1 when it is empty
LastModified ==
    IF DOMAIN job_files = {} THEN 1
    ELSE CHOOSE t \in {job_files[j].mtime : j \in DOMAIN job_files} :
             \A j \in DOMAIN job_files : job_files[j].mtime <= t

\* the values a job holds: None, an int, a str
PyNone == [t |-> "None", n |-> 0, s |-> ""]

PyInt(n) == [t |-> "int", n |-> n, s |-> ""]

PyStr(s) == [t |-> "str", n |-> 0, s |-> s]

\* datetime.isoformat() of the time now
IsoFormat(now) == [t |-> "str", n |-> now, s |-> "isoformat"]

\* a dict is the set of its items <<key, value>>
EmptyDict == {}

DictKeys(d) == {item[1] : item \in d}

DictGet(d, key) == (CHOOSE item \in d : item[1] = key)[2]

\* d[key] = value
DictSet(d, key, value) == {item \in d : item[1] # key} \cup {<<key, value>>}

\* the content of a file opened with "w" and not written yet
EmptyFile == [valid |-> FALSE, members |-> {}, length |-> 0]

\* json.dumps(job_data): a JSON object whose members are the items with
\* their values written as the literals null, number and string
JsonLiteral(value) ==
    [lit |-> CASE value.t = "None" -> "null"
               [] value.t = "int" -> "number"
               [] value.t = "str" -> "string",
     n |-> value.n, s |-> value.s]

\* the number of characters of a literal: null, the digits of a number
\* below 1000, a string in its quotes
LiteralLength(literal) ==
    CASE literal.lit = "null" -> Len("null")
      [] literal.lit = "number" ->
            IF literal.n < 10 THEN 1 ELSE IF literal.n < 100 THEN 2 ELSE 3
      [] literal.lit = "string" -> Len(literal.s) + 2

\* the number of characters of the members of a JSON object, each on a line
\* of its own: the indent, the key in its quotes, a colon and a space, the
\* literal, and a comma or the end of the line
RECURSIVE MembersLength(_)
MembersLength(members) ==
    IF members = {} THEN 0
    ELSE LET member == CHOOSE m \in members : TRUE
         IN  2 + Len(member[1]) + 2 + 2 + LiteralLength(member[2]) + 2
                 + MembersLength(members \ {member})

JsonObject(job_data) == {<<item[1], JsonLiteral(item[2])>> : item \in job_data}

JsonDumps(job_data) ==
    [valid |-> TRUE, members |-> JsonObject(job_data),
     length |-> 2 + MembersLength(JsonObject(job_data))]

\* json.loads(content) raises JSONDecodeError for a text that is no JSON
\* document, the empty text among them
JsonLoadsRaises(content) == ~content.valid

JsonValue(literal) ==
    [t |-> CASE literal.lit = "null" -> "None"
             [] literal.lit = "number" -> "int"
             [] literal.lit = "string" -> "str",
     n |-> literal.n, s |-> literal.s]

JsonLoads(content) == {<<member[1], JsonValue(member[2])>> : member \in content.members}

\* StorageAdapter.save_job for local storage: the file jobs/{job_id}.json is
\* (over)written at the time now with the JSON text of job_data, and True
\* is returned
StorageSaveJob(job_id, job_data, now) ==
    /\ now <= MaxClock
    /\ job_files' = (job_id :> [content |-> JsonDumps(job_data), mtime |-> now]) @@ job_files
    /\ saved' = [saved EXCEPT !.job = (job_id :> job_data) @@ @]
    /\ applied' = "StorageAdapter.save_job"
    /\ input' = [kind |-> "job", job_id |-> job_id]
    /\ output' = <<TRUE>>
    /\ UNCHANGED <<midi_files, calls, jvars, pvars>>

\* the orders in which glob("*.json") may yield the files
GlobOrders ==
    {g \in [1..Cardinality(DOMAIN job_files) -> DOMAIN job_files] :
        \A a, b \in DOMAIN g : a # b => g[a] # g[b]}

\* StorageAdapter.list_jobs(limit, offset) for local storage
StorageListJobsResult(limit, offset, glob) ==
    LET sorted_files == SortReverse([k \in 1..Len(glob) |->
                            [key |-> job_files[glob[k]].mtime, value |-> glob[k]]])
        page == PySlice(ValuesOf(sorted_files), offset, offset + limit)
    IN  [k \in 1..Len(page) |-> JsonLoads(job_files[page[k]].content)]

StorageListJobs(limit, offset, glob) ==
    /\ applied' = "StorageAdapter.list_jobs"
    /\ input' = [kind |-> "list", limit |-> limit, offset |-> offset]
    /\ output' = StorageListJobsResult(limit, offset, glob)
    /\ UNCHANGED <<job_files, jvars, pvars, svars>>

\* the creation time of the last job, 1 when there is none
LastCreated ==
    IF jobs_store = <<>> THEN 1 ELSE jobs_store[Len(jobs_store)].created_at

\* the clock does not go back, and may not have moved since the last read
ClockAfter(last) == {last, last + 1}

Pages == 0..(MaxJobs + 1)

\* a job as it is first saved
NewJobData(job_id) ==
    {<<"job_id", PyInt(job_id)>>, <<"status", PyStr("pending")>>,
     <<"progress", PyInt(0)>>, <<"error", PyNone>>, <<"result_url", PyNone>>,
     <<"created_at", IsoFormat(0)>>, <<"updated_at", IsoFormat(0)>>}

LInit == JInit /\ tf2_weights = FALSE /\ PIdle /\ FIdle

\* main.py keeps its jobs in jobs_store and never calls the StorageAdapter:
\* a run is one of the API or one of the adapter
ApiRun == job_files = <<>>

AdapterRun == uploads_store = {} /\ applied # "list_jobs"

LNext ==
    \/ ApiRun /\ UploadAudio(TRUE, [decodable |-> TRUE, audio |-> Silence])
    \/ ApiRun /\ \E upload_id \in UploadIds, now \in ClockAfter(LastCreated) :
                     StartTranscription(upload_id, now)
    \/ ApiRun /\ \E limit \in Pages, offset \in Pages : ListJobs(limit, offset)
    \/ AdapterRun /\ \E job_id \in JobIds, now \in ClockAfter(LastModified) :
                         StorageSaveJob(job_id, NewJobData(job_id), now)
    \/ AdapterRun /\ \E limit \in Pages, offset \in Pages, glob \in GlobOrders :
                         StorageListJobs(limit, offset, glob)

SpecList == LInit /\ [][LNext]_vars

(***************************************************************************)
(* What the claim about the listings speaks of.                            *)
(***************************************************************************)
\* the items [key, value] of a set of indices in every order that puts the
\* newest first
NewestFirst(ids, Item(_)) ==
    {[k \in 1..Cardinality(ids) |-> Item(g[k])] :
        g \in {g \in [1..Cardinality(ids) -> ids] :
                  /\ \A a, b \in DOMAIN g : a # b => g[a] # g[b]
                  /\ \A a, b \in DOMAIN g : a < b => Item(g[a]).key >= Item(g[b]).key}}

\* the elements offset, ..., offset + limit - 1 (counted from 0) of a
\* sequence, as far as they exist
Page(order, limit, offset) ==
    [k \in 1..Max(0, Min(limit, Len(order) - offset)) |-> order[offset + k].value]

JobItem(k) == [key |-> jobs_store[k].created_at, value |-> jobs_store[k]]

FileItem(j) == [key |-> job_files[j].mtime, value |-> JsonLoads(job_files[j].content)]

Listed == <<applied, input, output>>' # <<applied, input, output>>

\* C20: a listing with (limit, offset), both natural numbers, returns the
\* elements offset to offset + limit - 1 of all jobs put newest first, by
\* created_at in the API and by the modification time of the job file in
\* the local storage adapter; the total of the API is the number of all
\* jobs; and a listing changes neither jobs_store nor the job files.
C20_ListingIsSliceNewestFirst ==
    [][/\ (Listed /\ applied' = "list_jobs") =>
              /\ output'.total = Len(jobs_store)
              /\ output'.limit = input'.limit /\ output'.offset = input'.offset
              /\ \E order \in NewestFirst(DOMAIN jobs_store, JobItem) :
                     output'.jobs = Page(order, input'.limit, input'.offset)
              /\ UNCHANGED <<jobs_store, midi_store, uploads_store, job_files>>
       /\ (Listed /\ applied' = "StorageAdapter.list_jobs") =>
              /\ \E order \in NewestFirst(DOMAIN job_files, FileItem) :
                     output' = Page(order, input'.limit, input'.offset)
              /\ UNCHANGED <<jobs_store, midi_store, uploads_store, job_files>>
      ]_vars

\* two jobs created at different times were listed with limit 1 and
\* offset 1: the total is 2 and the page holds the older job
C20_Witness ==
    /\ applied = "list_jobs"
    /\ Len(jobs_store) = 2
    /\ jobs_store[1].created_at < jobs_store[2].created_at
    /\ input.limit = 1 /\ input.offset = 1
    /\ output.total = 2
    /\ output.jobs = <<jobs_store[1]>>

(***************************************************************************)
(* The local StorageAdapter: job files, MIDI files and update_job_status.  *)
(***************************************************************************)
\* StorageAdapter.get_job(job_id) for local storage: None when the file
\* jobs/{job_id}.json does not exist, else the value its text decodes to
GetJob(job_id) ==
    IF job_id \notin DOMAIN job_files THEN [exc |-> None, value |-> None]
    ELSE IF JsonLoadsRaises(job_files[job_id].content)
         THEN [exc |-> Some("JSONDecodeError"), value |-> None]
         ELSE [exc |-> None, value |-> Some(JsonLoads(job_files[job_id].content))]

StorageGetJob(job_id) ==
    /\ applied' = "StorageAdapter.get_job"
    /\ input' = [kind |-> "job", job_id |-> job_id]
    /\ output' = GetJob(job_id).value
    /\ UNCHANGED <<job_files, svars, jvars, pvars>>

\* StorageAdapter.save_midi(job_id, midi_data) for local storage
StorageSaveMidi(job_id, midi_data) ==
    /\ midi_files' = (job_id :> midi_data) @@ midi_files
    /\ saved' = [saved EXCEPT !.midi = (job_id :> midi_data) @@ @]
    /\ applied' = "StorageAdapter.save_midi"
    /\ input' = [kind |-> "job", job_id |-> job_id]
    /\ output' = <<TRUE>>
    /\ UNCHANGED <<job_files, calls, jvars, pvars>>

\* a get_midi that looks for the job file and not for the MIDI file
GetMidiFromJobFiles(job_id) ==
    IF job_id \in DOMAIN job_files THEN Some(<<>>) ELSE None

\* StorageAdapter.get_midi(job_id) for local storage
GetMidi(job_id) ==
    IF job_id \in DOMAIN midi_files THEN Some(midi_files[job_id]) ELSE None

StorageGetMidi(job_id) ==
    /\ applied' = "StorageAdapter.get_midi"
    /\ input' = [kind |-> "job", job_id |-> job_id]
    /\ output' = GetMidi(job_id)
    /\ UNCHANGED <<job_files, svars, jvars, pvars>>

\* `not job_data` of Python: None and the empty dict are falsy
Falsy(job_data) == job_data = None \/ job_data = Some(EmptyDict)

\* the assignments of update_job_status to the job_data it has read
UpdatedJob(job_data, args, now) ==
    LET with_status == DictSet(DictSet(job_data, "status", PyStr(args.status)),
                               "updated_at", IsoFormat(now))
        with_progress == IF args.progress # None
                         THEN DictSet(with_status, "progress", PyInt(args.progress[1]))
                         ELSE with_status
        with_error == IF args.error # None
                      THEN DictSet(with_progress, "error", PyStr(args.error[1]))
                      ELSE with_progress
    IN  IF args.result_url # None
        THEN DictSet(with_error, "result_url", PyStr(args.result_url[1]))
        ELSE with_error

\* StorageAdapter.update_job_status(job_id, status, progress, error,
\* result_url) when no other call runs between its get_job and its save_job
StorageUpdateJobStatus(job_id, args, now) ==
    /\ now <= MaxClock
    /\ GetJob(job_id).exc = None
    /\ applied' = "StorageAdapter.update_job_status"
    /\ input' = [kind |-> "update", job_id |-> job_id, args |-> args, now |-> now]
    /\ IF Falsy(GetJob(job_id).value)
       THEN /\ output' = <<FALSE>>
            /\ UNCHANGED <<job_files, saved>>
       ELSE LET job_data == UpdatedJob(GetJob(job_id).value[1], args, now)
            IN  /\ job_files' = (job_id :> [content |-> JsonDumps(job_data), mtime |-> now])
                                    @@ job_files
                /\ saved' = [saved EXCEPT !.job = (job_id :> job_data) @@ @]
                /\ output' = <<TRUE>>
    /\ UNCHANGED <<midi_files, calls, jvars, pvars>>

\* the arguments of update_job_status: the status, and progress, error and
\* result_url each once given and once left None
UpdateArgs ==
    {[status |-> "processing", progress |-> Some(50), error |-> None, result_url |-> None],
     [status |-> "completed", progress |-> None, error |-> Some("late"),
      result_url |-> Some("/download")]}

\* the bytes of a MIDI file, the empty bytes among them
MidiData == {<<>>, <<77, 84, 104, 100>>}

\* the jobs that are saved: a new job, and the empty dict
SavedJobData(job_id) == {NewJobData(job_id), EmptyDict}

SInit == JInit /\ tf2_weights = FALSE /\ PIdle /\ FIdle

SNext ==
    \/ \E job_id \in JobIds : \E job_data \in SavedJobData(job_id) :
           StorageSaveJob(job_id, job_data, LastModified)
    \/ \E job_id \in JobIds : StorageGetJob(job_id)
    \/ \E job_id \in JobIds, midi_data \in MidiData : StorageSaveMidi(job_id, midi_data)
    \/ \E job_id \in JobIds : StorageGetMidi(job_id)
    \/ \E job_id \in JobIds, args \in UpdateArgs :
           StorageUpdateJobStatus(job_id, args, LastModified)

SpecStorage == SInit /\ [][SNext]_vars

(***************************************************************************)
(* What the claims about the storage adapter speak of.                     *)
(***************************************************************************)
\* the keys update_job_status writes for its arguments
WrittenKeys(args) ==
    {"status", "updated_at"}
        \cup (IF args.progress # None THEN {"progress"} ELSE {})
        \cup (IF args.error # None THEN {"error"} ELSE {})
        \cup (IF args.result_url # None THEN {"result_url"} ELSE {})

Updating == applied' = "StorageAdapter.update_job_status" /\ input'.kind = "update"

\* C21: update_job_status on a job that does not exist returns False and
\* creates no job; on a job that exists it sets status and updated_at,
\* overwrites progress, error and result_url only for the arguments that are
\* not None, leaves every other field and every other job unchanged, and
\* returns the result of saving, which is True.
C21_UpdateJobStatusContract ==
    [][Updating =>
          LET job_id == input'.job_id
              args == input'.args
          IN  /\ job_id \notin DOMAIN job_files =>
                     output' = <<FALSE>> /\ job_files' = job_files
              /\ job_id \in DOMAIN job_files =>
                     /\ output' = <<TRUE>>
                     /\ DOMAIN job_files' = DOMAIN job_files
                     /\ \A other \in DOMAIN job_files \ {job_id} :
                            job_files'[other] = job_files[other]
                     /\ midi_files' = midi_files
                     /\ LET old == JsonLoads(job_files[job_id].content)
                            new == JsonLoads(job_files'[job_id].content)
                        IN  /\ DictKeys(new) = DictKeys(old) \cup WrittenKeys(args)
                            /\ DictGet(new, "status") = PyStr(args.status)
                            /\ DictGet(new, "updated_at") = IsoFormat(input'.now)
                            /\ args.progress # None =>
                                   DictGet(new, "progress") = PyInt(args.progress[1])
                            /\ args.error # None =>
                                   DictGet(new, "error") = PyStr(args.error[1])
                            /\ args.result_url # None =>
                                   DictGet(new, "result_url") = PyStr(args.result_url[1])
                            /\ \A key \in DictKeys(old) \ WrittenKeys(args) :
                                   DictGet(new, key) = DictGet(old, key)
      ]_vars

\* what get_job and get_midi are to return: the value of the last save
LastSavedJob(job_id) ==
    IF job_id \in DOMAIN saved.job THEN Some(saved.job[job_id]) ELSE None

LastSavedMidi(job_id) ==
    IF job_id \in DOMAIN saved.midi THEN Some(saved.midi[job_id]) ELSE None

\* C22: for the local adapter, after any sequence of operations get_job(id)
\* returns the data of the most recent save_job(id, data) and get_midi(id)
\* the bytes of the most recent save_midi(id, bytes), both return None for
\* an id that was never saved, and a save of a job changes no MIDI file and
\* no other job file, a save of MIDI bytes no job file and no other MIDI
\* file.
C22_GetReturnsLastSave ==
    [][/\ applied' = "StorageAdapter.get_job" =>
              output' = LastSavedJob(input'.job_id)
       /\ applied' = "StorageAdapter.get_midi" =>
              output' = LastSavedMidi(input'.job_id)
       /\ applied' = "StorageAdapter.save_job" =>
              /\ midi_files' = midi_files
              /\ \A other \in DOMAIN job_files \ {input'.job_id} :
                     other \in DOMAIN job_files' /\ job_files'[other] = job_files[other]
              /\ DOMAIN job_files' = DOMAIN job_files \cup {input'.job_id}
       /\ applied' = "StorageAdapter.save_midi" =>
              /\ job_files' = job_files
              /\ \A other \in DOMAIN midi_files \ {input'.job_id} :
                     other \in DOMAIN midi_files' /\ midi_files'[other] = midi_files[other]
              /\ DOMAIN midi_files' = DOMAIN midi_files \cup {input'.job_id}
      ]_vars

\* get_job returned a job that was saved, updated and so saved again, while
\* MIDI bytes are stored for the same id and nothing for another id
C22_Witness ==
    /\ applied = "StorageAdapter.get_job"
    /\ input.job_id \in DOMAIN saved.job
    /\ output = Some(saved.job[input.job_id])
    /\ "status" \in DictKeys(output[1])
    /\ DictGet(output[1], "status") = PyStr("completed")
    /\ DictGet(output[1], "job_id") = PyInt(input.job_id)
    /\ input.job_id \in DOMAIN midi_files
    /\ \E other \in JobIds : other \notin DOMAIN job_files /\ other \notin DOMAIN midi_files

(***************************************************************************)
(* Calls of update_job_status that run concurrently: a call gives way at   *)
(* the awaits of its get_job and its save_job, so the steps of several     *)
(* calls interleave.                                                       *)
(***************************************************************************)
MaxCalls == 2

CallIds == 1..MaxCalls

\* update_job_status(job_id, ...) is called
CallUpdateJobStatus(job_id, args) ==
    /\ Len(calls) < MaxCalls
    /\ calls' = Append(calls, [job_id |-> job_id, args |-> args, pc |-> "get_job",
                               job_data |-> EmptyDict, returned |-> None])
    /\ UNCHANGED <<midi_files, saved, fvars, jvars, pvars>>

\* job_data = await self.get_job(job_id), the test of job_data and the
\* assignments to it
CallGetJob(c) ==
    /\ c \in DOMAIN calls
    /\ calls[c].pc = "get_job"
    /\ LET read == GetJob(calls[c].job_id)
       IN  calls' = [calls EXCEPT ![c] =
               IF read.exc # None THEN [@ EXCEPT !.pc = "raised"]
               ELSE IF Falsy(read.value)
                    THEN [@ EXCEPT !.pc = "returned", !.returned = Some(FALSE)]
                    ELSE [@ EXCEPT !.pc = "save_job",
                                   !.job_data = UpdatedJob(read.value[1], calls[c].args,
                                                            LastModified)]]
    /\ UNCHANGED <<midi_files, saved, fvars, jvars, pvars>>

\* save_job: aiofiles.open(job_path, "w") empties the file
CallOpen(c) ==
    /\ c \in DOMAIN calls
    /\ calls[c].pc = "save_job"
    /\ calls' = [calls EXCEPT ![c].pc = "write"]
    /\ job_files' = (calls[c].job_id :> [content |-> EmptyFile, mtime |-> LastModified])
                        @@ job_files
    /\ UNCHANGED <<midi_files, saved, applied, input, output, jvars, pvars>>

\* what the file holds after the text of job_data was written from its
\* start: that text, or, when another call has written a longer text since
\* the file was opened, that text followed by the rest of the longer one,
\* which is no JSON document
Written(content, job_data) ==
    IF JsonDumps(job_data).length >= content.length
    THEN JsonDumps(job_data)
    ELSE [valid |-> FALSE, members |-> JsonObject(job_data), length |-> content.length]

\* save_job: the text is written, the file is closed, True is returned
CallWrite(c) ==
    /\ c \in DOMAIN calls
    /\ calls[c].pc = "write"
    /\ calls' = [calls EXCEPT ![c].pc = "returned", ![c].returned = Some(TRUE)]
    /\ job_files' = (calls[c].job_id :>
                         [content |-> Written(job_files[calls[c].job_id].content,
                                              calls[c].job_data),
                          mtime |-> LastModified]) @@ job_files
    /\ saved' = [saved EXCEPT !.job = (calls[c].job_id :> calls[c].job_data) @@ @]
    /\ UNCHANGED <<midi_files, applied, input, output, jvars, pvars>>

\* the jobs are saved first, then update_job_status is called up to
\* MaxCalls times, and the calls run interleaved
UNext ==
    \/ calls = <<>> /\ \E job_id \in JobIds :
                           StorageSaveJob(job_id, NewJobData(job_id), LastModified)
    \/ \E job_id \in JobIds, args \in UpdateArgs : CallUpdateJobStatus(job_id, args)
    \/ \E c \in CallIds : CallGetJob(c)
    \/ \E c \in CallIds : CallOpen(c)
    \/ \E c \in CallIds : CallWrite(c)

SpecUpdates == SInit /\ [][UNext]_vars

\* the optional fields a call writes, with the values it writes
WrittenFields(args) ==
    (IF args.progress # None THEN {<<"progress", PyInt(args.progress[1])>>} ELSE {})
        \cup (IF args.error # None THEN {<<"error", PyStr(args.error[1])>>} ELSE {})
        \cup (IF args.result_url # None
              THEN {<<"result_url", PyStr(args.result_url[1])>>} ELSE {})

\* the calls on job_id that have saved the job
Saving(job_id) ==
    {c \in DOMAIN calls : calls[c].job_id = job_id /\ calls[c].returned = Some(TRUE)}

AllReturned == \A c \in DOMAIN calls : calls[c].pc \in {"returned", "raised"}

\* C28: when the calls of update_job_status on one job ran concurrently and
\* all have returned, the stored job reflects every update: its status is
\* the status of one of the calls, and a field (progress, error, result_url)
\* that one call wrote and no other call wrote holds the value of that call.
C28_NoLostUpdate ==
    AllReturned =>
        \A job_id \in DOMAIN job_files :
            Saving(job_id) # {} =>
                /\ ~JsonLoadsRaises(job_files[job_id].content)
                /\ \E c \in Saving(job_id) :
                       <<"status", PyStr(calls[c].args.status)>>
                           \in JsonLoads(job_files[job_id].content)
                /\ \A c \in Saving(job_id) : \A field \in WrittenFields(calls[c].args) :
                       (\A d \in Saving(job_id) \ {c} :
                            field[1] \notin DictKeys(WrittenFields(calls[d].args)))
                           => field \in JsonLoads(job_files[job_id].content)

(***************************************************************************)
(* Several jobs on one transcriber: the audio files were uploaded before,  *)
(* one for every job that may be started, and all of them can be decoded:  *)
(* the first holds three onsets, the others are silent.                    *)
(***************************************************************************)
QInit ==
    /\ uploads_store = JobIds
    /\ files = [upload_id \in JobIds |->
                    [decodable |-> TRUE,
                     audio |-> IF upload_id = 1 THEN ThreeOnsets ELSE Silence]]
    /\ jobs_store = <<>>
    /\ midi_store = <<>>
    /\ transcriber = NoTranscriber
    /\ tf2_weights \in BOOLEAN
    /\ checkpoint = FALSE
    /\ pc = <<>>
    /\ running = 0
    /\ local = NoLocal
    /\ response = NoResponse
    /\ trace = <<>>
    /\ PIdle
    /\ FIdle

QNext ==
    \/ \E upload_id \in uploads_store : StartTranscription(upload_id, Tick)
    \/ \E job_id \in JobIds : TaskStart(job_id)
    \/ \E job_id \in JobIds, net \in NetOutcomes \X NetOutcomes, build \in BuildOutcomes :
          GetTranscriber(job_id, net, build)
    \/ \E job_id \in JobIds : TranscribeLoad(job_id)
    \/ \E job_id \in JobIds, build \in BuildOutcomes : TranscribeBuildModel(job_id, build)
    \/ \E job_id \in JobIds : TranscribeBranch(job_id)
    \/ \E job_id \in JobIds, run \in InferenceRuns : TranscribeModelPath(job_id, run)
    \/ \E job_id \in JobIds : TranscribeFallbackPath(job_id)
    \/ \E job_id \in JobIds : TranscribeProgress80(job_id)
    \/ \E job_id \in JobIds, written \in BOOLEAN : TranscribeCreateMidi(job_id, written)
    \/ \E job_id \in JobIds : StoreResult(job_id)
    \/ \E job_id \in JobIds : CleanUp(job_id)
    \/ \E job_id \in JobIds : HandleException(job_id)

SpecJobs == QInit /\ [][QNext]_vars

\* C23: once the transcriber holds a built model, no later step builds
\* again or replaces it (a build that was attempted and failed would leave
\* None), and every job that reaches the choice of the path is routed to
\* the model path; and once the DrumTranscriber was constructed it is kept
\* for every later job: no second construction, no second download.
C23_ModelBuiltOnceAndReused ==
    [][/\ transcriber.model # "None" => transcriber' = transcriber
       /\ transcriber.created =>
              /\ transcriber'.created
              /\ transcriber'.model_path = transcriber.model_path
              /\ checkpoint' = checkpoint
       /\ \A j \in Jobs :
              (transcriber.model # "None" /\ pc[j] = "branch" /\ pc'[j] # "branch") =>
                  pc'[j] = "model" /\ trace'[j].path = "model"
      ]_vars

\* the first job found no model after the construction, built it in its
\* transcribe call and took the model path; the second job took the model
\* path with that model
C23_Witness ==
    /\ Len(jobs_store) >= 2
    /\ pc[1] = "done"
    /\ trace[1].model_load_failed /\ trace[1].path = "model"
    /\ trace[2].path = "model" /\ ~trace[2].model_load_failed
    /\ transcriber.model # "None"

\* C24: the model is loaded in one attempt that is remembered: once a build
\* has failed and the transcriber holds no model, the model stays
\* unavailable, no later transcribe call builds it, and every job that
\* reaches the choice of the path is routed to the DSP path.
C24_FailedBuildIsRemembered ==
    [][(transcriber.created /\ transcriber.model = "None") =>
           /\ transcriber'.model = "None"
           /\ \A j \in Jobs : (pc[j] = "branch" /\ pc'[j] # "branch") => pc'[j] = "dsp"
      ]_vars

\* C25: a failure of the model inference makes that transcribe call go on
\* with the events of the DSP detection on the same audio, and leaves the
\* transcriber with its model as it was; a job that chooses its path after
\* an inference has failed is routed to the model path again.
C25_InferenceFailureKeepsModel ==
    [][\A j \in Jobs :
           /\ (pc[j] = "model" /\ pc'[j] # "model") =>
                  /\ transcriber' = transcriber
                  /\ pc'[j] = "progress_80"
                  /\ trace'[j].inference_raised =>
                         local'.drum_events = DetectOnsetsFromAudio(local.audio)
           /\ (pc[j] = "branch" /\ pc'[j] # "branch"
                   /\ \E k \in Jobs : trace[k].inference_raised) =>
                  pc'[j] = "model"
      ]_vars

\* the inference of the first job failed and the job was completed with the
\* DSP events; the second job took the model path and its inference
\* answered
C25_Witness ==
    /\ Len(jobs_store) >= 2
    /\ trace[1].inference_raised /\ jobs_store[1].status = "completed"
    /\ trace[2].path = "model" /\ ~trace[2].inference_raised
    /\ pc[2] = "progress_80"
    /\ transcriber.model = "model"

\* the audio of the file a job was started for
OwnAudio(j) == files[jobs_store[j].file_path].audio

\* C26: a step of process_audio_task for job j leaves the entry of every
\* other job in jobs_store (status, progress, error, result_url) and in
\* midi_store as it is; and the events of a transcription are those of the
\* job's own audio alone, built from the empty collection: the DSP events
\* are the detection on its own file, the model events are those of the
\* model's answer or of that detection, and the MIDI stored for the job is
\* made of these events.
C26_JobsIndependent ==
    [][\A j \in Jobs :
           (running = j \/ running' = j) =>
               /\ \A k \in Jobs \ {j} :
                      /\ jobs_store'[k] = jobs_store[k]
                      /\ (k \in DOMAIN midi_store') = (k \in DOMAIN midi_store)
                      /\ k \in DOMAIN midi_store => midi_store'[k] = midi_store[k]
               /\ (pc[j] = "dsp" /\ pc'[j] = "progress_80") =>
                      local'.drum_events = DetectOnsetsFromAudio(OwnAudio(j))
               /\ (pc[j] = "model" /\ pc'[j] = "progress_80") =>
                      local'.drum_events \in
                          {DetectOnsetsFromAudio(OwnAudio(j))}
                              \cup {ProcessTf2ModelOutputs(o, sample_rate) : o \in ModelOutputs}
               /\ (pc[j] = "store" /\ pc'[j] = "cleanup") =>
                      /\ midi_store'[j] = CreateMidi(local.drum_events)
                      /\ trace[j].path = "dsp" =>
                             midi_store'[j] = CreateMidi(DetectOnsetsFromAudio(OwnAudio(j)))
      ]_vars

\* two jobs on two files were completed on the DSP path: the MIDI of the
\* job on the file with three onsets has notes, the MIDI of the job on the
\* silent file, which ran after it, has none
C26_Witness ==
    /\ Len(jobs_store) >= 2
    /\ jobs_store[1].upload_id = 1 /\ jobs_store[2].upload_id = 2
    /\ jobs_store[1].status = "completed" /\ jobs_store[2].status = "completed"
    /\ pc[1] = "done" /\ pc[2] = "cleanup"
    /\ trace[1].path = "dsp" /\ trace[2].path = "dsp"
    /\ midi_store[1].notes # <<>>
    /\ midi_store[2].notes = <<>>

\* C27: a completed job has MIDI bytes in midi_store, progress 100 and the
\* result_url /api/jobs/{job_id}/download; a job that is pending, processing
\* or failed has neither progress 100 nor a result_url.
C27_CompletedHasResult ==
    \A j \in Jobs :
        /\ jobs_store[j].status = "completed" =>
               /\ j \in DOMAIN midi_store
               /\ jobs_store[j].progress = 100
               /\ jobs_store[j].result_url = Some(<<"/api/jobs", j, "download">>)
        /\ jobs_store[j].status \in {"pending", "processing", "failed"} =>
               /\ jobs_store[j].progress # 100
               /\ jobs_store[j].result_url = None

\* one job is completed and has ended, another failed when its MIDI was to
\* be written, at progress 80
C27_Witness ==
    \E j, k \in Jobs :
        /\ jobs_store[j].status = "completed" /\ pc[j] = "done"
        /\ jobs_store[k].status = "failed" /\ trace[k].raised = "midi"
        /\ jobs_store[k].progress = 80

\* C29: _find_onset_peaks reports no index twice: the indices it returns are
\* strictly increasing, there is one for every above-threshold run, and the
\* index reported for a run lies in that run and carries its maximum.
C29_DistinctPeakPerRun ==
    picker = "peaks" =>
        LET runs == RunSeq(signal, threshold)
        IN  /\ \A a, b \in 1..Len(peaks) : a < b => peaks[a] < peaks[b]
            /\ Len(peaks) = Len(runs)
            /\ \A k \in 1..Len(runs) :
                  k <= Len(peaks) =>
                      /\ peaks[k] \in runs[k][1]..runs[k][2]
                      /\ At(signal, peaks[k]) = RunMax(signal, runs[k])

\* C30: every job that was started for an upload_id of uploads_store finds
\* its input file: the file exists as long as the job has not loaded it,
\* and no job fails because its file cannot be loaded, whatever jobs were
\* run for the same upload before.
C30_EveryJobFindsItsFile ==
    \A j \in Jobs :
        jobs_store[j].upload_id \in uploads_store =>
            /\ pc[j] \in {"queued", "get_transcriber", "transcribe"} =>
                   jobs_store[j].file_path \in DOMAIN files
            /\ trace[j].raised # "load"

=============================================================================
